---------------------------- MODULE Spec2Model ----------------------------
(***************************************************************************)
(* Model of the extfg-sigma codec: the Sigma wire format (src/src/lib.rs,  *)
(* src/src/util.rs) and its stream framing codec (src/src/codec.rs).       *)
(*                                                                         *)
(* Representation.                                                         *)
(*   - A byte is an integer in 0..255; Bytes, BytesMut, String, Vec<u8>    *)
(*     and &[u8] are sequences of bytes (a String is a sequence that is    *)
(*     valid UTF-8).                                                       *)
(*   - u8, u16 and the usize values parsed from five ASCII bytes are       *)
(*     integers.  u32 and u64 values are decimal numerals: the sequence of *)
(*     their decimal digits, most significant first, without leading       *)
(*     zeros (<<0>> is zero).  The code only ever formats, parses and      *)
(*     compares them, and u64 does not fit the checker's integers.         *)
(*   - Result<T, E> is a record: [ok |-> TRUE, val |-> v] or               *)
(*     [ok |-> FALSE, err |-> kind]; a panic is the error kind "panic".    *)
(*   - A BTreeMap is a function from its keys to its values; its iterator  *)
(*     visits the keys in ascending order.                                 *)
(***************************************************************************)
EXTENDS Integers, Sequences, FiniteSets, TLC

VARIABLES
    req,        \* the SigmaRequest value in hand: None or Some(request)
    resp,       \* the SigmaResponse value in hand: None or Some(response)
    wire,       \* record of the last encode() call, or NoCall
    back,       \* record of the last decode() call, or NoCall
    frames,     \* the frames the peer sends on the transport, in order
    fed,        \* how many bytes of the peer's stream the transport has read
    src,        \* the stream decoder's buffer (BytesMut)
    dst,        \* the stream encoder's output buffer (BytesMut)
    last,       \* record of the codec call that has just returned, or NoCall
    delivered   \* the responses the stream decoder has produced, in order

vars == <<req, resp, wire, back, frames, fed, src, dst, last, delivered>>

msgVars == <<req, resp, wire, back>>
streamVars == <<frames, fed, src, dst, last, delivered>>

(***************************************************************************)
(* Results                                                                 *)
(***************************************************************************)
Ok(v) == [ok |-> TRUE, val |-> v]

Err(e) == [ok |-> FALSE, err |-> e]

\* an error that names a field: IncorrectFieldData { field_name, .. },
\* MissingField(name)
ErrField(e, f) == [ok |-> FALSE, err |-> e, field |-> f]

\* Option<T>
None == [some |-> FALSE]

Some(v) == [some |-> TRUE, val |-> v]

NoCall == [op |-> "none"]

(***************************************************************************)
(* Bytes and sequences                                                     *)
(***************************************************************************)
Byte == 0..255

Min(a, b) == IF a < b THEN a ELSE b

Take(s, n) == SubSeq(s, 1, Min(n, Len(s)))

Drop(s, n) == SubSeq(s, Min(n, Len(s)) + 1, Len(s))

Repeat(x, n) == [i \in 1..n |-> x]

RECURSIVE Concat(_)
Concat(ss) == IF ss = <<>> THEN <<>> ELSE Head(ss) \o Concat(Tail(ss))

IsDigitByte(b) == b >= 48 /\ b <= 57

AllDigitBytes(s) == \A i \in 1..Len(s) : IsDigitByte(s[i])

(***************************************************************************)
(* Decimal numerals (u32, u64)                                             *)
(***************************************************************************)
U64_MAX == <<1,8,4,4,6,7,4,4,0,7,3,7,0,9,5,5,1,6,1,5>>

U32_MAX == <<4,2,9,4,9,6,7,2,9,5>>

U16_MAX == <<6,5,5,3,5>>

U8_MAX == <<2,5,5>>

USIZE_MAX == U64_MAX

RECURSIVE StripZeros(_)
StripZeros(d) ==
    IF Len(d) > 1 /\ d[1] = 0 THEN StripZeros(Tail(d)) ELSE d

\* a <= b for numerals without leading zeros
RECURSIVE LexLeq(_, _)
LexLeq(a, b) ==
    IF a = <<>> THEN TRUE
    ELSE IF a[1] # b[1] THEN a[1] < b[1]
    ELSE LexLeq(Tail(a), Tail(b))

NumLeq(a, b) ==
    \/ Len(a) < Len(b)
    \/ Len(a) = Len(b) /\ LexLeq(a, b)

RECURSIVE IntOfNum(_)
IntOfNum(d) ==
    IF d = <<>> THEN 0 ELSE 10 * IntOfNum(SubSeq(d, 1, Len(d) - 1)) + d[Len(d)]

RECURSIVE NumOfInt(_)
NumOfInt(n) ==
    IF n < 10 THEN <<n>> ELSE Append(NumOfInt(n \div 10), n % 10)

\* format!("{}", v): the decimal digits as ASCII
FormatNum(d) == [i \in 1..Len(d) |-> 48 + d[i]]

\* format!("{:0w}", v): zero-padded on the left to at least w characters
FormatNumPad(d, w) ==
    IF Len(d) >= w THEN FormatNum(d) ELSE Repeat(48, w - Len(d)) \o FormatNum(d)


(***************************************************************************)
(* str::parse::<uN>(): an optional '+', then one or more ASCII digits, and *)
(* the value must fit the type.  Yields the numeral.                       *)
(***************************************************************************)
ParseUnsigned(s, max) ==
    IF s = <<>> THEN Err("parse")
    ELSE LET digits == IF s[1] = 43 THEN Tail(s) ELSE s
         IN  IF digits = <<>> \/ ~AllDigitBytes(digits) THEN Err("parse")
             ELSE LET n == StripZeros([i \in 1..Len(digits) |-> digits[i] - 48])
                  IN  IF NumLeq(n, max) THEN Ok(n) ELSE Err("parse")

(***************************************************************************)
(* UTF-8: String::from_utf8, std::str::from_utf8, String::from_utf8_lossy  *)
(***************************************************************************)
At(b, i) == IF i <= Len(b) THEN b[i] ELSE 0

IsCont(x) == x >= 128 /\ x <= 191

Utf8Width(x) ==
    IF x < 128 THEN 1
    ELSE IF x >= 194 /\ x <= 223 THEN 2
    ELSE IF x >= 224 /\ x <= 239 THEN 3
    ELSE IF x >= 240 /\ x <= 244 THEN 4
    ELSE 0

\* the second byte of a 3- or 4-byte sequence, which excludes overlong forms,
\* surrogates and code points above U+10FFFF
SecondOk(x, y) ==
    \/ x = 224 /\ y >= 160 /\ y <= 191
    \/ x >= 225 /\ x <= 236 /\ IsCont(y)
    \/ x = 237 /\ y >= 128 /\ y <= 159
    \/ x >= 238 /\ x <= 239 /\ IsCont(y)
    \/ x = 240 /\ y >= 144 /\ y <= 191
    \/ x >= 241 /\ x <= 243 /\ IsCont(y)
    \/ x = 244 /\ y >= 128 /\ y <= 143

\* the chunk that starts at b[i]: a whole character (valid), or the maximal
\* ill-formed part (not valid), with its length in bytes
Utf8Chunk(b, i) ==
    LET x == b[i]
        w == Utf8Width(x)
    IN  IF w = 1 THEN [valid |-> TRUE, len |-> 1]
        ELSE IF w = 0 THEN [valid |-> FALSE, len |-> 1]
        ELSE IF w = 2 THEN
            IF IsCont(At(b, i + 1)) THEN [valid |-> TRUE, len |-> 2]
            ELSE [valid |-> FALSE, len |-> 1]
        ELSE IF ~SecondOk(x, At(b, i + 1)) THEN [valid |-> FALSE, len |-> 1]
        ELSE IF ~IsCont(At(b, i + 2)) THEN [valid |-> FALSE, len |-> 2]
        ELSE IF w = 3 THEN [valid |-> TRUE, len |-> 3]
        ELSE IF ~IsCont(At(b, i + 3)) THEN [valid |-> FALSE, len |-> 3]
        ELSE [valid |-> TRUE, len |-> 4]

IsAscii(b) == \A i \in 1..Len(b) : b[i] < 128

RECURSIVE Utf8ValidFrom(_, _)
Utf8ValidFrom(b, i) ==
    IF i > Len(b) THEN TRUE
    ELSE LET c == Utf8Chunk(b, i)
         IN  c.valid /\ Utf8ValidFrom(b, i + c.len)

IsUtf8(b) == IsAscii(b) \/ Utf8ValidFrom(b, 1)

\* U+FFFD REPLACEMENT CHARACTER in UTF-8
Replacement == <<239, 191, 189>>

RECURSIVE Utf8LossyFrom(_, _)
Utf8LossyFrom(b, i) ==
    IF i > Len(b) THEN <<>>
    ELSE LET c == Utf8Chunk(b, i)
         IN  (IF c.valid THEN SubSeq(b, i, i + c.len - 1) ELSE Replacement)
             \o Utf8LossyFrom(b, i + c.len)

Utf8Lossy(b) == IF IsAscii(b) THEN b ELSE Utf8LossyFrom(b, 1)

(***************************************************************************)
(* str::trim(): leading and trailing White_Space characters removed        *)
(***************************************************************************)
\* length of the White_Space character whose UTF-8 form is b[i..j], 0 if none
WsLen(b, i, j) ==
    LET n == j - i + 1
    IN  IF n = 1 /\ (b[i] = 32 \/ (b[i] >= 9 /\ b[i] <= 13)) THEN 1
        ELSE IF n = 2 /\ b[i] = 194 /\ (b[j] = 133 \/ b[j] = 160) THEN 2
        ELSE IF n = 3 /\ (\/ b[i] = 225 /\ b[i+1] = 154 /\ b[j] = 128
                          \/ b[i] = 226 /\ b[i+1] = 128
                               /\ (b[j] <= 138 \/ b[j] = 168 \/ b[j] = 169 \/ b[j] = 175)
                          \/ b[i] = 226 /\ b[i+1] = 129 /\ b[j] = 159
                          \/ b[i] = 227 /\ b[i+1] = 128 /\ b[j] = 128) THEN 3
        ELSE 0

LeadingWs(b) ==
    IF \E n \in 1..Min(3, Len(b)) : WsLen(b, 1, n) = n
    THEN CHOOSE n \in 1..Min(3, Len(b)) : WsLen(b, 1, n) = n
    ELSE 0

TrailingWs(b) ==
    IF \E n \in 1..Min(3, Len(b)) : WsLen(b, Len(b) - n + 1, Len(b)) = n
    THEN CHOOSE n \in 1..Min(3, Len(b)) : WsLen(b, Len(b) - n + 1, Len(b)) = n
    ELSE 0

RECURSIVE TrimStart(_)
TrimStart(b) ==
    IF LeadingWs(b) = 0 THEN b ELSE TrimStart(Drop(b, LeadingWs(b)))

RECURSIVE TrimEnd(_)
TrimEnd(b) ==
    IF TrailingWs(b) = 0 THEN b ELSE TrimEnd(Take(b, Len(b) - TrailingWs(b)))

Trim(b) == TrimEnd(TrimStart(b))

(***************************************************************************)
(* util.rs                                                                 *)
(***************************************************************************)
\* parse_ascii_bytes_lossy!(b, uN, err)
parse_ascii_bytes_lossy(b, max, err) ==
    LET r == ParseUnsigned(Utf8Lossy(b), max)
    IN  IF r.ok THEN r ELSE err

\* a split that hands out what is there instead of failing
bytes_split_to_Clamps(bytes, at) ==
    [ok |-> TRUE, val |-> Take(bytes, at), rest |-> Drop(bytes, at)]

\* Ok: the first `at` bytes as val, the remainder as rest
bytes_split_to(bytes, at) ==
    IF Len(bytes) < at THEN Err("Bounds")
    ELSE [ok |-> TRUE, val |-> Take(bytes, at), rest |-> Drop(bytes, at)]

decode_bcd_x2(v) ==
    LET left == v \div 16
        right == v % 16
    IN  IF left > 9 THEN Err("Bounds")
        ELSE IF right > 9 THEN Err("Bounds")
        ELSE Ok(left * 10 + right)

decode_bcd_x4(v) ==
    LET l == decode_bcd_x2(v[1])
    IN  IF ~l.ok THEN l
        ELSE LET r == decode_bcd_x2(v[2])
             IN  IF ~r.ok THEN r ELSE Ok(l.val * 100 + r.val)

encode_bcd_x2(v) ==
    IF v > 99 THEN Err("Bounds")
    ELSE Ok(((v \div 10) * 16 + (v % 10)) % 256)

\* an encoder that writes the low pair of digits first
encode_bcd_x4_LowFirst(v) ==
    IF v > 9999 THEN Err("Bounds")
    ELSE LET digit_0 == v % 10
             digit_1 == (v \div 10) % 10
             digit_2 == (v \div 100) % 10
             digit_3 == (v \div 1000) % 10
             left == (digit_3 * 16 + digit_2) % 256
             right == (digit_1 * 16 + digit_0) % 256
         IN  Ok(<<right, left>>)

encode_bcd_x4(v) ==
    IF v > 9999 THEN Err("Bounds")
    ELSE LET digit_0 == v % 10
             digit_1 == (v \div 10) % 10
             digit_2 == (v \div 100) % 10
             digit_3 == (v \div 1000) % 10
             left == (digit_3 * 16 + digit_2) % 256
             right == (digit_1 * 16 + digit_0) % 256
         IN  Ok(<<left, right>>)

\* enum Tag; Regular and Iso carry no sub-index (si is 0 in the record)
Regular(i) == [kind |-> "Regular", i |-> i, si |-> 0]

Iso(i) == [kind |-> "Iso", i |-> i, si |-> 0]

IsoSubfield(i, si) == [kind |-> "IsoSubfield", i |-> i, si |-> si]

\* Tag::encode_to_buf: Ok(buf with the four tag bytes appended)
Tag_encode_to_buf(tag, buf) ==
    LET idx == encode_bcd_x4(tag.i)
    IN  IF tag.kind = "Regular" THEN
            IF ~idx.ok THEN idx ELSE Ok(buf \o <<84>> \o idx.val \o <<0>>)
        ELSE IF tag.kind = "Iso" THEN
            IF ~idx.ok THEN idx ELSE Ok(buf \o <<73>> \o idx.val \o <<0>>)
        ELSE
            IF ~idx.ok THEN idx
            ELSE LET sub == encode_bcd_x2(tag.si)
                 IN  IF ~sub.ok THEN sub
                     ELSE Ok(buf \o <<83>> \o idx.val \o <<sub.val>>)

Tag_decode(data) ==
    IF Len(data) < 4 THEN Err("IncorrectTag")
    ELSE LET i == decode_bcd_x4(<<data[2], data[3]>>)
         IN  IF ~i.ok THEN i
             ELSE LET si == decode_bcd_x2(data[4])
                  IN  IF ~si.ok THEN si
                      ELSE IF data[1] = 84 THEN Ok(Regular(i.val))
                      ELSE IF data[1] = 73 THEN Ok(Iso(i.val))
                      ELSE IF data[1] = 83 THEN Ok(IsoSubfield(i.val, si.val))
                      ELSE Err("IncorrectTag")

\* data.len() as u16
LenAsU16(data) == Len(data) % 65536

encode_field_to_buf(tag, data, buf) ==
    LET t == Tag_encode_to_buf(tag, buf)
    IN  IF ~t.ok THEN t
        ELSE LET l == encode_bcd_x4(LenAsU16(data))
             IN  IF ~l.ok THEN l ELSE Ok(t.val \o l.val \o data)

\* Ok: tag and data of the first field, and the rest of the cursor
decode_field_from_cursor(buf) ==
    LET tag_src == bytes_split_to(buf, 4)
    IN  IF ~tag_src.ok THEN tag_src
        ELSE LET tag == Tag_decode(tag_src.val)
             IN  IF ~tag.ok THEN tag
                 ELSE LET len_src == bytes_split_to(tag_src.rest, 2)
                      IN  IF ~len_src.ok THEN len_src
                          ELSE LET len == decode_bcd_x4(len_src.val)
                               IN  IF ~len.ok THEN len
                                   ELSE LET data == bytes_split_to(len_src.rest, len.val)
                                        IN  IF ~data.ok THEN data
                                            ELSE [ok |-> TRUE, tag |-> tag.val,
                                                  data |-> data.val, rest |-> data.rest]


(***************************************************************************)
(* lib.rs: validators and IsoFieldData                                     *)
(***************************************************************************)
\* mutant: only the length of the mti is checked
validate_mti_LengthOnly(s) ==
    IF Len(s) # 4 THEN ErrField("IncorrectFieldData", "MTI") ELSE Ok(<<>>)

validate_mti(s) ==
    IF Len(s) # 4 THEN ErrField("IncorrectFieldData", "MTI")
    ELSE IF \E i \in 1..Len(s) : ~IsDigitByte(s[i])
         THEN ErrField("IncorrectFieldData", "MTI")
         ELSE Ok(<<>>)

validate_source(s) ==
    IF Len(s) # 1 THEN ErrField("IncorrectFieldData", "SRC") ELSE Ok(<<>>)

validate_saf(s) ==
    IF s = <<89>> \/ s = <<78>> THEN Ok(<<>>)
    ELSE ErrField("IncorrectFieldData", "SAF")

\* enum IsoFieldData { String(String), Raw(Vec<u8>) }
IsoString(b) == [variant |-> "String", bytes |-> b]

IsoRaw(b) == [variant |-> "Raw", bytes |-> b]

IsoFieldData_as_bytes(x) == x.bytes

\* mutant: the promotion to text is forgotten
IsoFieldData_from_bytes_NoPromotion(data) == IsoRaw(data)

\* a promotion that replaces what is not UTF-8, as from_utf8_lossy would
IsoFieldData_from_bytes_Lossy(data) == IsoString(Utf8Lossy(data))

IsoFieldData_from_bytes(data) ==
    IF IsUtf8(data) THEN IsoString(data) ELSE IsoRaw(data)

(***************************************************************************)
(* BTreeMap                                                                *)
(***************************************************************************)
EmptyMap == <<>>

\* a map that keeps the value it already holds for a key
MapInsert_KeepsFirst(m, k, v) ==
    [x \in DOMAIN m \cup {k} |-> IF x \in DOMAIN m THEN m[x] ELSE v]

MapInsert(m, k, v) == [x \in DOMAIN m \cup {k} |-> IF x = k THEN v ELSE m[x]]

\* Ord for (u16, u8): lexicographic
PairLess(a, b) == a[1] < b[1] \/ (a[1] = b[1] /\ a[2] < b[2])

\* mutant: the keys are visited in descending order
RECURSIVE KeysDescending(_)
KeysDescending(S) ==
    IF S = {} THEN <<>>
    ELSE LET most == CHOOSE k \in S : \A o \in S : k >= o
         IN  <<most>> \o KeysDescending(S \ {most})

\* the order in which BTreeMap<u16, _>::iter visits the keys
RECURSIVE KeysAscending(_)
KeysAscending(S) ==
    IF S = {} THEN <<>>
    ELSE LET least == CHOOSE k \in S : \A o \in S : k <= o
         IN  <<least>> \o KeysAscending(S \ {least})

\* the order in which BTreeMap<(u16, u8), _>::iter visits the keys
RECURSIVE PairKeysAscending(_)
PairKeysAscending(S) ==
    IF S = {} THEN <<>>
    ELSE LET least == CHOOSE k \in S : \A o \in S \ {k} : PairLess(k, o)
         IN  <<least>> \o PairKeysAscending(S \ {least})

(***************************************************************************)
(* lib.rs: SigmaRequest                                                    *)
(***************************************************************************)
SigmaRequest_new(saf, source, mti, auth_serno) ==
    IF ~validate_saf(saf).ok THEN validate_saf(saf)
    ELSE IF ~validate_source(source).ok THEN validate_source(source)
    ELSE IF ~validate_mti(mti).ok THEN validate_mti(mti)
    ELSE Ok([saf |-> saf, source |-> source, mti |-> mti,
             auth_serno |-> auth_serno,
             tags |-> EmptyMap, iso_fields |-> EmptyMap,
             iso_subfields |-> EmptyMap])

\* the setters: Ok carries the request after the call
SigmaRequest_set_saf(self, v) ==
    IF ~validate_saf(v).ok THEN validate_saf(v)
    ELSE Ok([self EXCEPT !.saf = v])

\* mutant: set_source assigns without validating
SigmaRequest_set_source_Unchecked(self, v) == Ok([self EXCEPT !.source = v])

SigmaRequest_set_source(self, v) ==
    IF ~validate_source(v).ok THEN validate_source(v)
    ELSE Ok([self EXCEPT !.source = v])

SigmaRequest_set_mti(self, v) ==
    IF ~validate_mti(v).ok THEN validate_mti(v)
    ELSE Ok([self EXCEPT !.mti = v])

\* mutant: the last ten digits are kept instead of the first ten
AuthSernoBytes_LastTen(auth_serno) ==
    IF ~NumLeq(auth_serno, <<9,9,9,9,9,9,9,9,9,9>>)
    THEN SubSeq(FormatNum(auth_serno), Len(auth_serno) - 9, Len(auth_serno))
    ELSE FormatNumPad(auth_serno, 10)

\* the ten bytes of auth_serno on the wire (both encoders)
AuthSernoBytes(auth_serno) ==
    IF ~NumLeq(auth_serno, <<9,9,9,9,9,9,9,9,9,9>>)
    THEN SubSeq(FormatNum(auth_serno), 1, 10)
    ELSE FormatNumPad(auth_serno, 10)

\* mutant: the length counts the prefix too
PatchLength_CountsPrefix(buf) ==
    LET text == FormatNumPad(NumOfInt(Len(buf)), 5)
    IN  IF Len(text) # 5 THEN Err("panic")
        ELSE Ok(text \o Drop(buf, 5))

\* buf[0..5].copy_from_slice(format!("{:05}", msg_len)): copy_from_slice
\* panics unless the two slices have the same length
PatchLength(buf) ==
    LET msg_len == Len(buf) - 5
        text == FormatNumPad(NumOfInt(msg_len), 5)
    IN  IF Len(text) # 5 THEN Err("panic")
        ELSE Ok(text \o Drop(buf, 5))

\* encode_field_to_buf(tag, data, &mut buf)? for each <<tag, data>> in turn
RECURSIVE EncodeFields(_, _)
EncodeFields(entries, buf) ==
    IF entries = <<>> THEN Ok(buf)
    ELSE LET r == encode_field_to_buf(Head(entries)[1], Head(entries)[2], buf)
         IN  IF ~r.ok THEN r ELSE EncodeFields(Tail(entries), r.val)

\* for (k, v) in self.tags.iter()
TagEntries(self) ==
    LET keys == KeysAscending(DOMAIN self.tags)
    IN  [n \in 1..Len(keys) |-> <<Regular(keys[n]), self.tags[keys[n]]>>]

\* for (k, v) in self.iso_fields.iter()
IsoEntries(self) ==
    LET keys == KeysAscending(DOMAIN self.iso_fields)
    IN  [n \in 1..Len(keys) |->
            <<Iso(keys[n]), IsoFieldData_as_bytes(self.iso_fields[keys[n]])>>]

\* for ((k, k1), v) in self.iso_subfields.iter()
IsoSubfieldEntries(self) ==
    LET keys == PairKeysAscending(DOMAIN self.iso_subfields)
    IN  [n \in 1..Len(keys) |->
            <<IsoSubfield(keys[n][1], keys[n][2]),
              IsoFieldData_as_bytes(self.iso_subfields[keys[n]])>>]

SigmaRequest_encode(self) ==
    LET head == <<48, 48, 48, 48, 48>> \o self.saf \o self.source \o self.mti
                \o AuthSernoBytes(self.auth_serno)
        t == EncodeFields(TagEntries(self), head)
    IN  IF ~t.ok THEN t
        ELSE LET i == EncodeFields(IsoEntries(self), t.val)
             IN  IF ~i.ok THEN i
                 ELSE LET s == EncodeFields(IsoSubfieldEntries(self), i.val)
                      IN  IF ~s.ok THEN s ELSE PatchLength(s.val)

\* while !data.is_empty() { decode one field, route it by tag variant }
RECURSIVE RequestFields(_, _)
RequestFields(r, data) ==
    IF data = <<>> THEN Ok(r)
    ELSE LET f == decode_field_from_cursor(data)
         IN  IF ~f.ok THEN f
             ELSE IF f.tag.kind = "Regular" THEN
                 RequestFields(
                     [r EXCEPT !.tags = MapInsert(@, f.tag.i, Utf8Lossy(f.data))],
                     f.rest)
             ELSE IF f.tag.kind = "Iso" THEN
                 RequestFields(
                     [r EXCEPT !.iso_fields =
                         MapInsert(@, f.tag.i, IsoFieldData_from_bytes(f.data))],
                     f.rest)
             ELSE
                 RequestFields(
                     [r EXCEPT !.iso_subfields =
                         MapInsert(@, <<f.tag.i, f.tag.si>>,
                                   IsoFieldData_from_bytes(f.data))],
                     f.rest)

SigmaRequest_decode(data) ==
    LET new == SigmaRequest_new(<<78>>, <<88>>, <<48, 49, 48, 48>>, <<0>>)
        p == bytes_split_to(data, 5)
    IN  IF ~p.ok THEN p
        ELSE LET msg_len == parse_ascii_bytes_lossy(p.val, USIZE_MAX,
                                ErrField("IncorrectFieldData", "message length"))
        IN  IF ~msg_len.ok THEN msg_len
        ELSE LET body == bytes_split_to(p.rest, IntOfNum(msg_len.val))
        IN  IF ~body.ok THEN body
        ELSE LET b1 == bytes_split_to(body.val, 1)
        IN  IF ~b1.ok THEN b1
        ELSE LET r1 == SigmaRequest_set_saf(new.val, Utf8Lossy(b1.val))
        IN  IF ~r1.ok THEN r1
        ELSE LET b2 == bytes_split_to(b1.rest, 1)
        IN  IF ~b2.ok THEN b2
        ELSE LET r2 == SigmaRequest_set_source(r1.val, Utf8Lossy(b2.val))
        IN  IF ~r2.ok THEN r2
        ELSE LET b3 == bytes_split_to(b2.rest, 4)
        IN  IF ~b3.ok THEN b3
        ELSE LET r3 == SigmaRequest_set_mti(r2.val, Utf8Lossy(b3.val))
        IN  IF ~r3.ok THEN r3
        ELSE LET b4 == bytes_split_to(b3.rest, 10)
        IN  IF ~b4.ok THEN b4
        ELSE LET serno == ParseUnsigned(Trim(Utf8Lossy(b4.val)), U64_MAX)
        IN  IF ~serno.ok THEN ErrField("IncorrectFieldData", "Serno")
        ELSE RequestFields([r3.val EXCEPT !.auth_serno = serno.val], b4.rest)


(***************************************************************************)
(* lib.rs: FeeData and SigmaResponse                                       *)
(***************************************************************************)
FeeData_from_slice(data) ==
    IF Len(data) >= 8 THEN
        LET reason == parse_ascii_bytes_lossy(SubSeq(data, 1, 4), U16_MAX,
                          ErrField("IncorrectFieldData", "FeeData.reason"))
        IN  IF ~reason.ok THEN reason
        ELSE LET currency == parse_ascii_bytes_lossy(SubSeq(data, 5, 7), U16_MAX,
                                 ErrField("IncorrectFieldData", "FeeData.currency"))
        IN  IF ~currency.ok THEN currency
        ELSE LET amount == parse_ascii_bytes_lossy(SubSeq(data, 8, Len(data)), U64_MAX,
                               ErrField("IncorrectFieldData", "FeeData.amount"))
        IN  IF ~amount.ok THEN amount
        ELSE Ok([reason |-> IntOfNum(reason.val),
                 currency |-> IntOfNum(currency.val),
                 amount |-> amount.val])
    ELSE Err("IncorrectData")

\* mutant: "{:<04}" read as left-aligned, the zeros padded on the right
FeeData_encode_LeftAligned(self) ==
    IF self.reason > 9999 THEN Err("Bounds")
    ELSE IF self.currency > 999 THEN Err("Bounds")
    ELSE Ok(FormatNum(NumOfInt(self.reason))
            \o Repeat(48, 4 - Len(NumOfInt(self.reason)))
            \o FormatNum(NumOfInt(self.currency))
            \o Repeat(48, 3 - Len(NumOfInt(self.currency)))
            \o FormatNum(self.amount))

\* an encoder that checks the currency against the limit of the reason
FeeData_encode_WideCurrency(self) ==
    IF self.reason > 9999 THEN Err("Bounds")
    ELSE IF self.currency > 9999 THEN Err("Bounds")
    ELSE Ok(FormatNumPad(NumOfInt(self.reason), 4)
            \o FormatNumPad(NumOfInt(self.currency), 3)
            \o FormatNum(self.amount))

\* "{:<04}" and "{:<03}": with the 0 flag an integer is zero-padded after the
\* sign whatever the alignment
FeeData_encode(self) ==
    IF self.reason > 9999 THEN Err("Bounds")
    ELSE IF self.currency > 999 THEN Err("Bounds")
    ELSE Ok(FormatNumPad(NumOfInt(self.reason), 4)
            \o FormatNumPad(NumOfInt(self.currency), 3)
            \o FormatNum(self.amount))

SigmaResponse_new(mti, auth_serno, reason) ==
    IF ~validate_mti(mti).ok THEN validate_mti(mti)
    ELSE Ok([mti |-> mti, auth_serno |-> auth_serno, reason |-> reason,
             fees |-> <<>>, adata |-> None])

SigmaResponse_set_mti(self, v) ==
    IF ~validate_mti(v).ok THEN validate_mti(v)
    ELSE Ok([self EXCEPT !.mti = v])

\* a field loop that takes index 31 of any tag variant for the reason
RECURSIVE ResponseFields_AnyVariant(_, _)
ResponseFields_AnyVariant(r, data) ==
    IF data = <<>> THEN Ok(r)
    ELSE LET Reason(f, reason) ==
                 IF ~reason.ok THEN reason
                 ELSE ResponseFields_AnyVariant([r EXCEPT !.reason = reason.val], f.rest)
             Fee(f, fee) ==
                 IF ~fee.ok THEN fee
                 ELSE ResponseFields_AnyVariant([r EXCEPT !.fees = Append(@, fee.val)], f.rest)
             Field(f) ==
                 IF ~f.ok THEN f
                 ELSE IF f.tag.i = 31 THEN
                     Reason(f, parse_ascii_bytes_lossy(f.data, U32_MAX,
                                   ErrField("IncorrectFieldData", "reason")))
                 ELSE IF f.tag = Regular(32) THEN
                     Fee(f, FeeData_from_slice(f.data))
                 ELSE IF f.tag = Regular(48) THEN
                     ResponseFields_AnyVariant([r EXCEPT !.adata = Some(Utf8Lossy(f.data))], f.rest)
                 ELSE ResponseFields_AnyVariant(r, f.rest)
         IN  Field(decode_field_from_cursor(data))

\* while !data.is_empty() { decode one field; interpret tags 31, 32, 48 }
RECURSIVE ResponseFields(_, _)
ResponseFields(r, data) ==
    IF data = <<>> THEN Ok(r)
    ELSE LET Reason(f, reason) ==
                 IF ~reason.ok THEN reason
                 ELSE ResponseFields([r EXCEPT !.reason = reason.val], f.rest)
             Fee(f, fee) ==
                 IF ~fee.ok THEN fee
                 ELSE ResponseFields([r EXCEPT !.fees = Append(@, fee.val)], f.rest)
             Field(f) ==
                 IF ~f.ok THEN f
                 ELSE IF f.tag = Regular(31) THEN
                     Reason(f, parse_ascii_bytes_lossy(f.data, U32_MAX,
                                   ErrField("IncorrectFieldData", "reason")))
                 ELSE IF f.tag = Regular(32) THEN
                     Fee(f, FeeData_from_slice(f.data))
                 ELSE IF f.tag = Regular(48) THEN
                     ResponseFields([r EXCEPT !.adata = Some(Utf8Lossy(f.data))], f.rest)
                 ELSE ResponseFields(r, f.rest)
         IN  Field(decode_field_from_cursor(data))

SigmaResponse_decode(data) ==
    LET new == SigmaResponse_new(<<48, 49, 48, 48>>, <<0>>, <<0>>)
        p == bytes_split_to(data, 5)
    IN  IF ~p.ok THEN p
        ELSE LET msg_len == parse_ascii_bytes_lossy(p.val, USIZE_MAX,
                                ErrField("IncorrectFieldData", "message length"))
        IN  IF ~msg_len.ok THEN msg_len
        ELSE LET body == bytes_split_to(p.rest, IntOfNum(msg_len.val))
        IN  IF ~body.ok THEN body
        ELSE LET b1 == bytes_split_to(body.val, 4)
        IN  IF ~b1.ok THEN b1
        ELSE LET r1 == SigmaResponse_set_mti(new.val, Utf8Lossy(b1.val))
        IN  IF ~r1.ok THEN r1
        ELSE LET b2 == bytes_split_to(b1.rest, 10)
        IN  IF ~b2.ok THEN b2
        ELSE LET serno == ParseUnsigned(Trim(Utf8Lossy(b2.val)), U64_MAX)
        IN  IF ~serno.ok THEN ErrField("IncorrectFieldData", "Serno")
        ELSE ResponseFields([r1.val EXCEPT !.auth_serno = serno.val], b2.rest)

\* for i in &self.fees { encode_field_to_buf(Tag::Regular(32), &i.encode()?, buf)? }
RECURSIVE EncodeFees(_, _)
EncodeFees(fees, buf) ==
    IF fees = <<>> THEN Ok(buf)
    ELSE LET e == FeeData_encode(Head(fees))
         IN  IF ~e.ok THEN e
             ELSE LET r == encode_field_to_buf(Regular(32), e.val, buf)
                  IN  IF ~r.ok THEN r ELSE EncodeFees(Tail(fees), r.val)

SigmaResponse_encode(self) ==
    LET head == <<48, 48, 48, 48, 48>> \o self.mti \o AuthSernoBytes(self.auth_serno)
        r == encode_field_to_buf(Regular(31), FormatNum(self.reason), head)
    IN  IF ~r.ok THEN r
        ELSE LET f == EncodeFees(self.fees, r.val)
             IN  IF ~f.ok THEN f
                 ELSE IF self.adata.some THEN
                     LET a == encode_field_to_buf(Regular(48), self.adata.val, f.val)
                     IN  IF ~a.ok THEN a ELSE PatchLength(a.val)
                 ELSE PatchLength(f.val)


(***************************************************************************)
(* Inputs of the message operations                                        *)
(***************************************************************************)
MaxFields == 3

MaxFees == 2

\* "Y", "N" and a rejected "X"
SafInputs == {<<89>>, <<78>>, <<88>>}

\* "M" and a rejected ""
SourceInputs == {<<77>>, <<>>}

\* "0200" and a rejected "02A0"
MtiInputs == {<<48, 50, 48, 48>>, <<48, 50, 65, 48>>}

\* 0, 123123, 10^10 - 1, 10^10, 7877706965687192023, u64::MAX
SernoInputs ==
    { <<0>>, <<1,2,3,1,2,3>>, <<9,9,9,9,9,9,9,9,9,9>>, <<1,0,0,0,0,0,0,0,0,0,0>>,
      <<7,8,7,7,7,0,6,9,6,5,6,8,7,1,9,2,0,2,3>>, U64_MAX }

\* u16 keys of tags; 10000 is beyond the tag bound
TagKeyInputs == {0, 9999, 10000}

\* "" and "C" followed by U+00E9
TextInputs == {<<>>, <<67, 195, 169>>}

IsoKeyInputs == {2, 127}

\* Text "0100", Raw that is not UTF-8, Raw "AB" that is
IsoDataInputs == {IsoString(<<48, 49, 48, 48>>), IsoRaw(<<255>>), IsoRaw(<<65, 66>>)}

\* (u16, u8) keys of iso_subfields; sub-index 100 is beyond the bound
IsoSubKeyInputs == {<<19, 2>>, <<19, 99>>, <<20, 1>>, <<19, 100>>}

IsoSubDataInputs == {IsoString(<<89>>)}

\* 0, 8100, u32::MAX
ReasonInputs == {<<0>>, <<8,1,0,0>>, U32_MAX}

\* "0110" and a rejected "011"
RespMtiInputs == {<<48, 49, 49, 48>>, <<48, 49, 49>>}

FeeInputs ==
    { [reason |-> 8116, currency |-> 643, amount |-> <<9,0,0,0>>],
      [reason |-> 0, currency |-> 7, amount |-> U64_MAX],
      [reason |-> 10000, currency |-> 643, amount |-> <<1>>],
      [reason |-> 81, currency |-> 1000, amount |-> <<1>>] }

\* "CJyu" and ""
AdataInputs == {<<67, 74, 121, 117>>, <<>>}

FieldCount(r) ==
    Cardinality(DOMAIN r.tags) + Cardinality(DOMAIN r.iso_fields)
        + Cardinality(DOMAIN r.iso_subfields)

(***************************************************************************)
(* Message operations.  One value is in hand at a time; it is built and    *)
(* changed through the public interface, then encoded, the frame decoded,  *)
(* and the decoded value encoded again.                                    *)
(***************************************************************************)
InitMsg ==
    /\ req = None
    /\ resp = None
    /\ wire = NoCall
    /\ back = NoCall

InitStreamIdle ==
    /\ frames = <<>>
    /\ fed = 0
    /\ src = <<>>
    /\ dst = <<>>
    /\ last = NoCall
    /\ delivered = <<>>

Init == InitMsg /\ InitStreamIdle

Fresh == req = None /\ resp = None

Editing(v) == v.some /\ wire = NoCall

\* SigmaRequest::new(saf, source, mti, auth_serno)
RequestNew ==
    /\ Fresh
    /\ \E saf \in SafInputs, source \in SourceInputs, mti \in MtiInputs,
          serno \in SernoInputs :
          LET r == SigmaRequest_new(saf, source, mti, serno)
          IN  req' = IF r.ok THEN Some(r.val) ELSE req
    /\ UNCHANGED <<resp, wire, back>>
    /\ UNCHANGED streamVars

\* req.tags.insert(k, v)
RequestInsertTag ==
    /\ Editing(req)
    /\ \E k \in TagKeyInputs, v \in TextInputs :
          LET r == [req.val EXCEPT !.tags = MapInsert(@, k, v)]
          IN  /\ FieldCount(r) <= MaxFields
              /\ req' = Some(r)
    /\ UNCHANGED <<resp, wire, back>>
    /\ UNCHANGED streamVars

\* req.iso_fields.insert(k, v)
RequestInsertIso ==
    /\ Editing(req)
    /\ \E k \in IsoKeyInputs, v \in IsoDataInputs :
          LET r == [req.val EXCEPT !.iso_fields = MapInsert(@, k, v)]
          IN  /\ FieldCount(r) <= MaxFields
              /\ req' = Some(r)
    /\ UNCHANGED <<resp, wire, back>>
    /\ UNCHANGED streamVars

\* req.iso_subfields.insert((k, k1), v)
RequestInsertIsoSubfield ==
    /\ Editing(req)
    /\ \E k \in IsoSubKeyInputs, v \in IsoSubDataInputs :
          LET r == [req.val EXCEPT !.iso_subfields = MapInsert(@, k, v)]
          IN  /\ FieldCount(r) <= MaxFields
              /\ req' = Some(r)
    /\ UNCHANGED <<resp, wire, back>>
    /\ UNCHANGED streamVars

\* req.encode()
RequestEncode ==
    /\ Editing(req)
    /\ wire' = [op |-> "SigmaRequest::encode", from |-> "model",
                arg |-> req.val, res |-> SigmaRequest_encode(req.val)]
    /\ UNCHANGED <<req, resp, back>>
    /\ UNCHANGED streamVars

\* SigmaRequest::decode(frame) on the frame encode() returned
RequestDecode ==
    /\ wire.op = "SigmaRequest::encode"
    /\ wire.res.ok
    /\ back = NoCall
    /\ back' = [op |-> "SigmaRequest::decode", arg |-> wire.res.val,
                res |-> SigmaRequest_decode(wire.res.val)]
    /\ UNCHANGED <<req, resp, wire>>
    /\ UNCHANGED streamVars

\* SigmaResponse::new(mti, auth_serno, reason)
ResponseNew ==
    /\ Fresh
    /\ \E mti \in RespMtiInputs, serno \in SernoInputs, reason \in ReasonInputs :
          LET r == SigmaResponse_new(mti, serno, reason)
          IN  resp' = IF r.ok THEN Some(r.val) ELSE resp
    /\ UNCHANGED <<req, wire, back>>
    /\ UNCHANGED streamVars

\* resp.fees.push(fee)
ResponsePushFee ==
    /\ Editing(resp)
    /\ Len(resp.val.fees) < MaxFees
    /\ \E fee \in FeeInputs :
          resp' = Some([resp.val EXCEPT !.fees = Append(@, fee)])
    /\ UNCHANGED <<req, wire, back>>
    /\ UNCHANGED streamVars

\* resp.adata = Some(text)
ResponseSetAdata ==
    /\ Editing(resp)
    /\ \E a \in AdataInputs :
          resp' = Some([resp.val EXCEPT !.adata = Some(a)])
    /\ UNCHANGED <<req, wire, back>>
    /\ UNCHANGED streamVars

\* resp.encode()
ResponseEncode ==
    /\ Editing(resp)
    /\ wire' = [op |-> "SigmaResponse::encode", from |-> "model",
                arg |-> resp.val, res |-> SigmaResponse_encode(resp.val)]
    /\ UNCHANGED <<req, resp, back>>
    /\ UNCHANGED streamVars

\* SigmaResponse::decode(frame) on the frame encode() returned
ResponseDecode ==
    /\ wire.op = "SigmaResponse::encode"
    /\ wire.res.ok
    /\ back = NoCall
    /\ back' = [op |-> "SigmaResponse::decode", arg |-> wire.res.val,
                res |-> SigmaResponse_decode(wire.res.val)]
    /\ UNCHANGED <<req, resp, wire>>
    /\ UNCHANGED streamVars

\* encode() on the value decode() returned
ResponseEncodeDecoded ==
    /\ back.op = "SigmaResponse::decode"
    /\ back.res.ok
    /\ wire.from = "model"
    /\ wire' = [op |-> "SigmaResponse::encode", from |-> "decoded",
                arg |-> back.res.val, res |-> SigmaResponse_encode(back.res.val)]
    /\ UNCHANGED <<req, resp, back>>
    /\ UNCHANGED streamVars

Next ==
    \/ RequestNew
    \/ RequestInsertTag
    \/ RequestInsertIso
    \/ RequestInsertIsoSubfield
    \/ RequestEncode
    \/ RequestDecode
    \/ ResponseNew
    \/ ResponsePushFee
    \/ ResponseSetAdata
    \/ ResponseEncode
    \/ ResponseDecode
    \/ ResponseEncodeDecoded

Spec == Init /\ [][Next]_vars


(***************************************************************************)
(* codec.rs: SigmaClientProtocol                                           *)
(***************************************************************************)
LENGTH_BYTES_COUNT == 5

\* std::str::from_utf8(&src[0..LENGTH_BYTES_COUNT])?.parse::<usize>()?
ParsePrefix(buf) ==
    LET prefix == SubSeq(buf, 1, LENGTH_BYTES_COUNT)
    IN  IF ~IsUtf8(prefix) THEN Err("WrongLenUtf8")
        ELSE LET n == ParseUnsigned(prefix, USIZE_MAX)
             IN  IF ~n.ok THEN Err("WrongLenInt") ELSE Ok(IntOfNum(n.val))

\* ClientProtocolError::ExtfgSigma(e)
ExtfgSigma(e) == [ok |-> FALSE, err |-> "ExtfgSigma", cause |-> e.err]

\* what decode() returns once a whole frame has been split off the buffer
FrameResult(d, rest) ==
    [res |-> IF d.ok THEN Ok(Some(d.val)) ELSE ExtfgSigma(d), src |-> rest]

\* src.split_to(n) and SigmaResponse::decode(bytes.freeze())
SplitFrame(buf, n) == FrameResult(SigmaResponse_decode(Take(buf, n)), Drop(buf, n))

\* mutant: the prefix is split off before the length is compared
WithPrefix_ConsumesPrefix(buf, msg_len) ==
    IF ~msg_len.ok THEN [res |-> msg_len, src |-> buf]
    ELSE IF Len(buf) < msg_len.val + LENGTH_BYTES_COUNT
    THEN [res |-> Ok(None), src |-> Drop(buf, LENGTH_BYTES_COUNT)]
    ELSE SplitFrame(buf, msg_len.val + LENGTH_BYTES_COUNT)

\* mutant: a frame that is exactly complete is still taken for incomplete
WithPrefix_WaitsForMore(buf, msg_len) ==
    IF ~msg_len.ok THEN [res |-> msg_len, src |-> buf]
    ELSE IF Len(buf) <= msg_len.val + LENGTH_BYTES_COUNT
    THEN [res |-> Ok(None), src |-> buf]
    ELSE SplitFrame(buf, msg_len.val + LENGTH_BYTES_COUNT)

\* mutant: a frame whose body does not decode is left in the buffer
WithPrefix_KeepsBadFrame(buf, msg_len) ==
    IF ~msg_len.ok THEN [res |-> msg_len, src |-> buf]
    ELSE IF Len(buf) < msg_len.val + LENGTH_BYTES_COUNT
    THEN [res |-> Ok(None), src |-> buf]
    ELSE FrameResult(SigmaResponse_decode(Take(buf, msg_len.val + LENGTH_BYTES_COUNT)),
                     buf)

\* mutant: a prefix that is no number is thrown away with the rest of the buffer
WithPrefix_ClearsOnBadPrefix(buf, msg_len) ==
    IF ~msg_len.ok THEN [res |-> msg_len, src |-> <<>>]
    ELSE IF Len(buf) < msg_len.val + LENGTH_BYTES_COUNT
    THEN [res |-> Ok(None), src |-> buf]
    ELSE SplitFrame(buf, msg_len.val + LENGTH_BYTES_COUNT)

\* Decoder::decode once the buffer holds the length prefix
WithPrefix(buf, msg_len) ==
    IF ~msg_len.ok THEN [res |-> msg_len, src |-> buf]
    ELSE IF Len(buf) < msg_len.val + LENGTH_BYTES_COUNT
    THEN [res |-> Ok(None), src |-> buf]
    ELSE SplitFrame(buf, msg_len.val + LENGTH_BYTES_COUNT)

\* Decoder::decode(&mut self, src): the result and the buffer after the call.
\* src.reserve() changes the capacity of the buffer, not its contents.
Decoder_decode(buf) ==
    IF Len(buf) < LENGTH_BYTES_COUNT
    THEN [res |-> Ok(None), src |-> buf]
    ELSE WithPrefix(buf, ParsePrefix(buf))

\* mutant: the frame replaces what the buffer held
Appended_Overwrites(e, buf) ==
    IF ~e.ok THEN [res |-> ExtfgSigma(e), dst |-> buf]
    ELSE [res |-> Ok(<<>>), dst |-> e.val]

\* dst.put_slice(&item.encode()?): nothing is written when encode() fails
Appended(e, buf) ==
    IF ~e.ok THEN [res |-> ExtfgSigma(e), dst |-> buf]
    ELSE [res |-> Ok(<<>>), dst |-> buf \o e.val]

\* Encoder<SigmaRequest>::encode(&mut self, item, dst): the result and the
\* buffer after the call
Encoder_encode(item, buf) == Appended(SigmaRequest_encode(item), buf)

(***************************************************************************)
(* The stream: a peer sends frames, the transport appends what it reads to *)
(* the decoder's buffer in chunks, and the codec is called.                *)
(***************************************************************************)
MaxChunk == 3

MaxBuffered == 30

FrameOf(response) == SigmaResponse_encode(response).val

ResponseA ==
    [mti |-> <<48, 49, 49, 48>>, auth_serno |-> <<4,0,0,7,0,4,0,9,7,8>>,
     reason |-> <<8,4,9,5>>, fees |-> <<>>, adata |-> None]

ResponseB ==
    [mti |-> <<48, 49, 49, 48>>, auth_serno |-> <<1,2,3,1,2,3>>,
     reason |-> <<0>>, fees |-> <<[reason |-> 8116, currency |-> 643,
                                  amount |-> <<9,0,0,0>>]>>,
     adata |-> Some(<<67, 74>>)]

FrameA == FrameOf(ResponseA)

FrameB == FrameOf(ResponseB)

\* FrameA with the prefix "+0024" in place of "00024"
FramePlus == <<43>> \o Tail(FrameA)

\* "0002A" and a byte: the prefix is not a number
FrameNotNumber == <<48, 48, 48, 50, 65, 49>>

\* a prefix that is not UTF-8
FrameNotUtf8 == <<48, 48, 255, 50, 52, 49>>

\* "00000": a frame with an empty body
FrameEmptyBody == <<48, 48, 48, 48, 48>>

\* "00003" "01A": a complete frame whose body is no response
FrameBadBody == <<48, 48, 48, 48, 51, 48, 49, 65>>

StreamInputs ==
    { <<FrameA>>, <<FrameA, FrameB>>, <<FrameB, FrameA, FrameA>>,
      <<FramePlus>>, <<FrameNotNumber>>, <<FrameNotUtf8>>,
      <<FrameEmptyBody, FrameA>>, <<FrameBadBody, FrameA>>,
      <<FrameA, FrameNotNumber>> }

RequestPlain ==
    [saf |-> <<89>>, source |-> <<77>>, mti |-> <<48, 50, 48, 49>>,
     auth_serno |-> <<7,8,7,7,7,0,6,9,6,5,6,8,7,1,9,2,0,2,3>>,
     tags |-> EmptyMap, iso_fields |-> EmptyMap, iso_subfields |-> EmptyMap]

RequestWithTag == [RequestPlain EXCEPT !.tags = MapInsert(@, 1, <<67>>)]

\* index 10000 is beyond the tag bound: encode() fails
RequestOutOfBounds == [RequestPlain EXCEPT !.tags = MapInsert(@, 10000, <<67>>)]

ItemInputs == {RequestPlain, RequestWithTag, RequestOutOfBounds}

\* all the bytes the peer sends
Stream == Concat(frames)

InitStream ==
    /\ InitMsg
    /\ frames \in StreamInputs
    /\ fed = 0
    /\ src = <<>>
    /\ dst = <<>>
    /\ last = NoCall
    /\ delivered = <<>>

\* the transport reads n more bytes into the decoder's buffer; the result of
\* the previous call has been handed over by then
Feed ==
    /\ \E n \in 1..MaxChunk :
          /\ fed + n <= Len(Stream)
          /\ src' = src \o SubSeq(Stream, fed + 1, fed + n)
          /\ fed' = fed + n
    /\ last' = NoCall
    /\ UNCHANGED <<frames, dst, delivered>>
    /\ UNCHANGED msgVars

\* SigmaClientProtocol.decode(&mut src)
DecodeStep ==
    /\ \E r \in {Decoder_decode(src)} :
           /\ src' = r.src
           /\ last' = [op |-> "decode", before |-> src, res |-> r.res, after |-> r.src]
           /\ delivered' = IF r.res.ok /\ r.res.val.some
                           THEN Append(delivered, r.res.val.val)
                           ELSE delivered
    /\ UNCHANGED <<frames, fed, dst>>
    /\ UNCHANGED msgVars

\* SigmaClientProtocol.encode(item, &mut dst)
EncodeStep ==
    /\ Len(dst) < MaxBuffered
    /\ \E item \in ItemInputs :
          \E r \in {Encoder_encode(item, dst)} :
              /\ dst' = r.dst
              /\ last' = [op |-> "encode", before |-> dst, item |-> item,
                          res |-> r.res, after |-> r.dst]
    /\ UNCHANGED <<frames, fed, src, delivered>>
    /\ UNCHANGED msgVars

NextStream == Feed \/ DecodeStep \/ EncodeStep

SpecStream == InitStream /\ [][NextStream]_vars

(***************************************************************************)
(* Vocabulary of the properties                                            *)
(***************************************************************************)
RequestEncoded == wire.op = "SigmaRequest::encode"

ResponseEncoded == wire.op = "SigmaResponse::encode"

RequestDecoded == back.op = "SigmaRequest::decode"

ResponseDecoded == back.op = "SigmaResponse::decode"

\* auth_serno < 10^10
SernoFitsTenDigits(n) == Len(n) <= 10

IsoPayloads(r) ==
    {r.iso_fields[k] : k \in DOMAIN r.iso_fields}
        \cup {r.iso_subfields[k] : k \in DOMAIN r.iso_subfields}

\* tag bounds and payload bounds of a request
RequestInBounds(r) ==
    /\ \A k \in DOMAIN r.tags : k <= 9999 /\ Len(r.tags[k]) <= 9999
    /\ \A k \in DOMAIN r.iso_fields : k <= 9999
    /\ \A k \in DOMAIN r.iso_subfields : k[1] <= 9999 /\ k[2] <= 99
    /\ \A v \in IsoPayloads(r) : Len(v.bytes) <= 9999

RECURSIVE FieldBytes(_)
FieldBytes(entries) ==
    IF entries = <<>> THEN 0
    ELSE 6 + Len(Head(entries)[2]) + FieldBytes(Tail(entries))

\* the number of bytes that follow the length prefix of the request's frame
RequestBodyLen(r) ==
    16 + FieldBytes(TagEntries(r)) + FieldBytes(IsoEntries(r))
       + FieldBytes(IsoSubfieldEntries(r))

ResponseInBounds(s) ==
    /\ \A n \in 1..Len(s.fees) : s.fees[n].reason <= 9999 /\ s.fees[n].currency <= 999
    /\ s.adata.some => Len(s.adata.val) <= 9999

\* the fields of a frame body in wire order, as <<tag, data>>, up to the
\* first byte that does not start a well-formed field
RECURSIVE WireFields(_)
WireFields(data) ==
    IF data = <<>> THEN <<>>
    ELSE LET f == decode_field_from_cursor(data)
         IN  IF ~f.ok THEN <<>>
             ELSE <<(<<f.tag, f.data>>)>> \o WireFields(f.rest)

\* the body is a sequence of well-formed fields and nothing else
RECURSIVE FieldsOnly(_)
FieldsOnly(data) ==
    IF data = <<>> THEN TRUE
    ELSE LET f == decode_field_from_cursor(data)
         IN  f.ok /\ FieldsOnly(f.rest)

VariantRank(tag) ==
    IF tag.kind = "Regular" THEN 1 ELSE IF tag.kind = "Iso" THEN 2 ELSE 3

\* Regular before Iso before IsoSubfield, then by index, then by sub-index
TagBefore(a, b) ==
    \/ VariantRank(a) < VariantRank(b)
    \/ VariantRank(a) = VariantRank(b) /\ a.i < b.i
    \/ VariantRank(a) = VariantRank(b) /\ a.i = b.i /\ a.si < b.si

\* value of the decimal ASCII text s
TextValue(s) == IntOfNum([i \in 1..Len(s) |-> s[i] - 48])

(***************************************************************************)
(* C1  Request round trip.                                                 *)
(***************************************************************************)
\* C1 as stated: every request whose keys and payloads are within bounds,
\* with any u64 auth_serno, encodes, and decoding the frame gives back an
\* equal request, Text/Raw variants included.
C1_RoundTripAsStated ==
    (RequestEncoded /\ RequestInBounds(wire.arg)) =>
        /\ wire.res.ok
        /\ RequestDecoded => (back.res.ok /\ back.res.val = wire.arg)

\* C1 amended: the round trip holds for requests within bounds whose
\* auth_serno is below 10^10, whose Raw iso payloads are not valid UTF-8 and
\* whose frame body is at most 99999 bytes.
C1_RoundTrip ==
    ( /\ RequestEncoded
      /\ RequestInBounds(wire.arg)
      /\ SernoFitsTenDigits(wire.arg.auth_serno)
      /\ \A v \in IsoPayloads(wire.arg) : v.variant = "Raw" => ~IsUtf8(v.bytes)
      /\ RequestBodyLen(wire.arg) <= 99999 ) =>
        /\ wire.res.ok
        /\ RequestDecoded => (back.res.ok /\ back.res.val = wire.arg)

\* a request with a Regular, a Text Iso and an IsoSubfield entry has made
\* the round trip
C1_Witness ==
    /\ RequestEncoded /\ RequestDecoded
    /\ back.res.ok /\ back.res.val = wire.arg
    /\ DOMAIN wire.arg.tags # {}
    /\ \E k \in DOMAIN wire.arg.iso_fields : wire.arg.iso_fields[k].variant = "String"
    /\ DOMAIN wire.arg.iso_subfields # {}

(***************************************************************************)
(* C2  Response round trip.                                                *)
(***************************************************************************)
SameResponse(a, b) ==
    /\ a.mti = b.mti
    /\ a.auth_serno = b.auth_serno
    /\ a.reason = b.reason
    /\ a.fees = b.fees
    /\ a.adata = b.adata

\* C2 as stated: every response within bounds, with any u64 auth_serno,
\* encodes; decoding the frame gives the same mti, auth_serno, reason, fees
\* and adata; and encoding the decoded value gives the same bytes.
C2_RoundTripAsStated ==
    /\ (ResponseEncoded /\ wire.from = "model" /\ ResponseInBounds(wire.arg)) =>
          /\ wire.res.ok
          /\ ResponseDecoded => (back.res.ok /\ SameResponse(back.res.val, wire.arg))
    /\ (ResponseEncoded /\ wire.from = "decoded") => wire.res = Ok(back.arg)

\* C2 amended: the decoded fields equal the original ones when auth_serno
\* is below 10^10 (and the frame body is at most 99999 bytes); encoding the
\* decoded value gives the same bytes for every auth_serno.
C2_RoundTrip ==
    /\ ( /\ ResponseEncoded /\ wire.from = "model"
         /\ ResponseInBounds(wire.arg)
         /\ SernoFitsTenDigits(wire.arg.auth_serno) ) =>
          /\ wire.res.ok
          /\ ResponseDecoded => (back.res.ok /\ SameResponse(back.res.val, wire.arg))
    /\ (ResponseEncoded /\ wire.from = "decoded") => wire.res = Ok(back.arg)

\* a response with two fees and adata was encoded, decoded and encoded again
C2_Witness ==
    /\ ResponseEncoded /\ wire.from = "decoded" /\ ResponseDecoded
    /\ Len(back.res.val.fees) = 2
    /\ back.res.val.fees[1] # back.res.val.fees[2]
    /\ back.res.val.adata.some
    /\ wire.res = Ok(back.arg)

(***************************************************************************)
(* C3 - C7  The stream codec.                                              *)
(***************************************************************************)
StreamDecoded == last.op = "decode"

StreamEncoded == last.op = "encode"

NeedMore(r) == r.ok /\ ~r.val.some

Produced(r) == r.ok /\ r.val.some

\* a frame of the wire format: five digits, that many bytes after them, and
\* a body that decodes
ValidFrame(f) ==
    /\ Len(f) >= LENGTH_BYTES_COUNT
    /\ AllDigitBytes(Take(f, LENGTH_BYTES_COUNT))
    /\ TextValue(Take(f, LENGTH_BYTES_COUNT)) = Len(f) - LENGTH_BYTES_COUNT
    /\ SigmaResponse_decode(f).ok

\* C3: a decode step on a buffer of fewer than 5 bytes, or on a buffer whose
\* 5-byte prefix is a number N and that holds fewer than 5 + N bytes, returns
\* need-more and leaves the buffer byte for byte as it was.
C3_ShortRead ==
    ( /\ StreamDecoded
      /\ \/ Len(last.before) < LENGTH_BYTES_COUNT
         \/ /\ ParsePrefix(last.before).ok
            /\ Len(last.before) < LENGTH_BYTES_COUNT + ParsePrefix(last.before).val ) =>
        /\ NeedMore(last.res)
        /\ last.after = last.before
        /\ src = last.before

\* a decode step saw a whole prefix and part of the body
C3_Witness ==
    /\ StreamDecoded
    /\ Len(last.before) > LENGTH_BYTES_COUNT
    /\ AllDigitBytes(Take(last.before, LENGTH_BYTES_COUNT))
    /\ NeedMore(last.res)

\* C4 as stated: a decode step on a buffer whose first 5 bytes parse as N
\* and that holds at least 5 + N bytes removes exactly the first 5 + N bytes
\* and produces one response.
C4_FrameConsumedAsStated ==
    ( /\ StreamDecoded
      /\ Len(last.before) >= LENGTH_BYTES_COUNT
      /\ ParsePrefix(last.before).ok
      /\ Len(last.before) >= LENGTH_BYTES_COUNT + ParsePrefix(last.before).val ) =>
        /\ last.after = Drop(last.before, LENGTH_BYTES_COUNT + ParsePrefix(last.before).val)
        /\ Produced(last.res)

\* C4 amended: such a step removes exactly the first 5 + N bytes (the bytes
\* after them stay, in order); it produces the response those bytes decode
\* to, or, when SigmaResponse::decode rejects them, returns that error with
\* the bytes removed all the same.
C4_FrameConsumed ==
    ( /\ StreamDecoded
      /\ Len(last.before) >= LENGTH_BYTES_COUNT
      /\ ParsePrefix(last.before).ok
      /\ Len(last.before) >= LENGTH_BYTES_COUNT + ParsePrefix(last.before).val ) =>
        /\ last.after = Drop(last.before, LENGTH_BYTES_COUNT + ParsePrefix(last.before).val)
        /\ src = last.after
        /\ \E d \in {SigmaResponse_decode(
                        Take(last.before,
                             LENGTH_BYTES_COUNT + ParsePrefix(last.before).val))} :
              IF d.ok
              THEN Produced(last.res) /\ last.res.val.val = d.val
              ELSE /\ ~last.res.ok
                   /\ last.res.err = "ExtfgSigma"
                   /\ last.res.cause = d.err

\* a decode step took a whole frame off a buffer that held more than the frame
C4_Witness ==
    /\ StreamDecoded
    /\ Produced(last.res)
    /\ last.after # <<>>
    /\ last.before = FrameB \o last.after

\* C5: when every frame of the stream is valid, however the bytes are fed:
\* the responses delivered so far are decode(f1), decode(f2), ... in order,
\* the buffer is what was fed beyond the delivered frames, a decode step
\* yields need-more exactly when the buffer held less than the next frame
\* (and never an error), and once the last response is out the buffer is
\* empty.
C5_StreamDelivery ==
    (\A i \in 1..Len(frames) : ValidFrame(frames[i])) =>
        \E k \in {Len(delivered)} :
            /\ k <= Len(frames)
            /\ \A i \in 1..k : delivered[i] = SigmaResponse_decode(frames[i]).val
            /\ src = SubSeq(Stream, Len(Concat(SubSeq(frames, 1, k))) + 1, fed)
            /\ (k = Len(frames) => src = <<>>)
            /\ StreamDecoded =>
                 /\ last.after = src
                 /\ last.res.ok
                 /\ IF last.res.val.some
                    THEN /\ k >= 1
                         /\ last.res.val.val = delivered[k]
                         /\ Len(last.before) >= Len(frames[k])
                         /\ last.before = frames[k] \o last.after
                    ELSE /\ k < Len(frames) => Len(last.before) < Len(frames[k + 1])
                         /\ k = Len(frames) => last.before = <<>>

\* three frames went through the decoder and the last step emptied the buffer
C5_Witness ==
    /\ frames = <<FrameB, FrameA, FrameA>>
    /\ Len(delivered) = 3
    /\ StreamDecoded
    /\ Produced(last.res)
    /\ src = <<>>

\* C6: a decode step on a buffer of at least 5 bytes whose first 5 bytes are
\* not all ASCII decimal digits returns a length-parsing error, never
\* need-more and never a response.
C6_PrefixRejected ==
    ( /\ StreamDecoded
      /\ Len(last.before) >= LENGTH_BYTES_COUNT
      /\ ~AllDigitBytes(Take(last.before, LENGTH_BYTES_COUNT)) ) =>
        /\ ~last.res.ok
        /\ last.res.err \in {"WrongLenUtf8", "WrongLenInt"}

\* C7: an encode step with request r on a buffer holding B leaves B followed
\* by r.encode() when that succeeds and B when it fails, whatever was encoded
\* or decoded before.
C7_EncodeAppends ==
    StreamEncoded =>
        /\ dst = last.after
        /\ \E e \in {SigmaRequest_encode(last.item)} :
              IF e.ok
              THEN last.res.ok /\ last.after = last.before \o e.val
              ELSE ~last.res.ok /\ last.after = last.before

\* a request was appended to a buffer that already held a frame, after the
\* decoder had delivered a response
C7_Witness ==
    /\ StreamEncoded
    /\ last.res.ok
    /\ last.before # <<>>
    /\ Len(last.after) > Len(last.before)
    /\ delivered # <<>>

(***************************************************************************)
(* C8  The length prefix equals the body length.                           *)
(***************************************************************************)
\* C8: whenever a request or response encoder returns Ok(frame), the first
\* five bytes of the frame are ASCII digits whose value is len(frame) - 5.
C8_LengthPrefix ==
    ((RequestEncoded \/ ResponseEncoded) /\ wire.res.ok) =>
        /\ Len(wire.res.val) >= 5
        /\ AllDigitBytes(Take(wire.res.val, 5))
        /\ TextValue(Take(wire.res.val, 5)) = Len(wire.res.val) - 5

\* a request with three fields was encoded
C8_Witness ==
    /\ RequestEncoded /\ wire.res.ok
    /\ FieldCount(wire.arg) = 3
    /\ Len(wire.res.val) > 21 + 18

(***************************************************************************)
(* C9  Request field order on the wire.                                    *)
(***************************************************************************)
\* the <<tag, data>> pairs the maps of request r hold
MapEntries(r) ==
    {<<Regular(k), r.tags[k]>> : k \in DOMAIN r.tags}
        \cup {<<Iso(k), r.iso_fields[k].bytes>> : k \in DOMAIN r.iso_fields}
        \cup {<<IsoSubfield(k[1], k[2]), r.iso_subfields[k].bytes>> :
                 k \in DOMAIN r.iso_subfields}

\* C9: in an encoded request the 16-byte header is followed by one TLV per
\* map entry: the Regular fields in strictly ascending index, then the Iso
\* fields in strictly ascending index, then the IsoSubfield fields in
\* strictly ascending (index, sub) order.
C9_FieldOrder ==
    (RequestEncoded /\ wire.res.ok) =>
        LET fs == WireFields(Drop(wire.res.val, 21))
        IN  /\ FieldsOnly(Drop(wire.res.val, 21))
            /\ Len(fs) = FieldCount(wire.arg)
            /\ {fs[n] : n \in 1..Len(fs)} = MapEntries(wire.arg)
            /\ \A m, n \in 1..Len(fs) : m < n => TagBefore(fs[m][1], fs[n][1])

\* a request with two Regular entries and an Iso entry was encoded
C9_Witness ==
    /\ RequestEncoded /\ wire.res.ok
    /\ Cardinality(DOMAIN wire.arg.tags) = 2
    /\ Cardinality(DOMAIN wire.arg.iso_fields) = 1

\* a request with two IsoSubfield entries of different index, the larger
\* index with the smaller sub-index, and a Regular entry was encoded
C9_WitnessSub ==
    /\ RequestEncoded /\ wire.res.ok
    /\ {<<19, 99>>, <<20, 1>>} \subseteq DOMAIN wire.arg.iso_subfields
    /\ DOMAIN wire.arg.tags # {}

(***************************************************************************)
(* C10  The auth_serno field is always ten ASCII digits.                   *)
(***************************************************************************)
\* the ten auth_serno bytes of an encoded frame
SernoField(frame, isRequest) ==
    IF isRequest THEN SubSeq(frame, 12, 21) ELSE SubSeq(frame, 10, 19)

\* C10: the encoders emit auth_serno as exactly ten ASCII digits: zero-padded
\* on the left when it is below 10^10, its ten most significant digits
\* otherwise; the fields start right after it.
C10_SernoField ==
    ((RequestEncoded \/ ResponseEncoded) /\ wire.res.ok) =>
        LET n == wire.arg.auth_serno
            field == SernoField(wire.res.val, RequestEncoded)
            rest == Drop(wire.res.val, IF RequestEncoded THEN 21 ELSE 19)
        IN  /\ Len(field) = 10
            /\ AllDigitBytes(field)
            /\ Len(n) <= 10 =>
                  field = Repeat(48, 10 - Len(n)) \o [i \in 1..Len(n) |-> 48 + n[i]]
            /\ Len(n) > 10 => field = [i \in 1..10 |-> 48 + n[i]]
            /\ FieldsOnly(rest)

\* a request whose auth_serno has 19 digits was encoded
C10_Witness ==
    /\ RequestEncoded /\ wire.res.ok
    /\ Len(wire.arg.auth_serno) = 19
    /\ DOMAIN wire.arg.tags # {}

(***************************************************************************)
(* util.rs: the textual form of a tag (JSON keys)                          *)
(***************************************************************************)
\* an error that carries a message
ErrText(e, text) == [ok |-> FALSE, err |-> e, text |-> text]

\* "incorrect format for "
IncorrectFormatFor == <<105, 110, 99, 111, 114, 114, 101, 99, 116, 32, 102, 111, 114, 109, 97, 116, 32, 102, 111, 114, 32>>

\* IncorrectTag("Starts with: '{c}', length: {l}"): c is a u8 and is written
\* as a decimal number
StartsWith(c, l) ==
    ErrText("IncorrectTag",
            <<83, 116, 97, 114, 116, 115, 32, 119, 105, 116, 104, 58, 32, 39>> \o FormatNum(NumOfInt(c))
            \o <<39, 44, 32, 108, 101, 110, 103, 116, 104, 58, 32>> \o FormatNum(NumOfInt(l)))

\* parse_ascii_bytes_lossy!(&bytes[from..to], uN, IncorrectTag("incorrect
\* format for <letter>"))
TagIndex(bytes, from, to, max, letter) ==
    parse_ascii_bytes_lossy(SubSeq(bytes, from, to), max,
                            ErrText("IncorrectTag", IncorrectFormatFor \o <<letter>>))

\* Tag::from_str(s): s is a str, s.len() its length in bytes
Tag_from_str(s) ==
    IF s = <<>> THEN ErrText("IncorrectTag", <<69, 109, 112, 116, 121>>)
    ELSE IF s[1] \in {84, 116} /\ Len(s) = 5 THEN
        LET v == TagIndex(s, 2, 5, U16_MAX, 84)
        IN  IF ~v.ok THEN v ELSE Ok(Regular(IntOfNum(v.val)))
    ELSE IF s[1] \in {73, 105} /\ Len(s) = 4 THEN
        LET v == TagIndex(s, 2, 4, U16_MAX, 105)
        IN  IF ~v.ok THEN v ELSE Ok(Iso(IntOfNum(v.val)))
    ELSE IF s[1] \in {83, 115} /\ Len(s) = 7 THEN
        LET v == TagIndex(s, 2, 5, U16_MAX, 83)
        IN  IF ~v.ok THEN v
            ELSE LET sv == TagIndex(s, 6, 7, U8_MAX, 83)
                 IN  IF ~sv.ok THEN sv
                     ELSE Ok(IsoSubfield(IntOfNum(v.val), IntOfNum(sv.val)))
    ELSE StartsWith(s[1], Len(s))

\* impl Display for Tag: "T{:04}", "i{:03}", "s{:04}{:02}"
Tag_to_string(tag) ==
    IF tag.kind = "Regular" THEN <<84>> \o FormatNumPad(NumOfInt(tag.i), 4)
    ELSE IF tag.kind = "Iso" THEN <<105>> \o FormatNumPad(NumOfInt(tag.i), 3)
    ELSE <<115>> \o FormatNumPad(NumOfInt(tag.i), 4)
               \o FormatNumPad(NumOfInt(tag.si), 2)

(***************************************************************************)
(* serde_json::Value, as far as from_json_value looks at it                *)
(***************************************************************************)
JString(s) == [t |-> "string", s |-> s]

\* a number that as_u64() returns
JU64(n) == [t |-> "u64", n |-> n]

\* null, a bool, a negative or fractional number, an array: neither as_str()
\* nor as_u64() nor as_object_mut() returns a value
JOther == [t |-> "other"]

\* an object: a map from keys to values
JObject(m) == [t |-> "object", m |-> m]

\* Map::remove(key)
MapRemove(m, k) == [x \in DOMAIN m \ {k} |-> m[x]]

\* the order of str: byte by byte, a proper prefix first
BytesLess(a, b) ==
    \E i \in 1..(Min(Len(a), Len(b)) + 1) :
        /\ \A j \in 1..(i - 1) : a[j] = b[j]
        /\ IF i > Len(a) THEN i <= Len(b)
           ELSE i <= Len(b) /\ a[i] < b[i]

\* Map::iter(): the keys in ascending order (serde_json keeps a BTreeMap)
RECURSIVE StrKeysAscending(_)
StrKeysAscending(S) ==
    IF S = {} THEN <<>>
    ELSE LET k == CHOOSE x \in S : \A y \in S \ {x} : BytesLess(x, y)
         IN  <<k>> \o StrKeysAscending(S \ {k})

KeySAF == <<83, 65, 70>>

KeySRC == <<83, 82, 67>>

KeyMTI == <<77, 84, 73>>

KeySerno == <<83, 101, 114, 110, 111>>

(***************************************************************************)
(* lib.rs: SigmaRequest::from_json_value                                   *)
(***************************************************************************)
\* an IncorrectFieldData whose field_name is a JSON key
ErrKey(e, name) == [ok |-> FALSE, err |-> e, key |-> name]

\* mutant: an integer is rendered with at least four digits
JsonContent_Padded(v) ==
    IF v.t = "string" THEN v.s ELSE FormatNumPad(v.n, 4)

\* the payload of a value: x.into() for a string, format!("{}", x) for a u64
JsonContent(v) ==
    IF v.t = "string" THEN v.s ELSE FormatNum(v.n)

\* for (name, field_data) in data.iter(): parse the key, render the value,
\* insert into the map of the tag's variant
RECURSIVE JsonFields(_, _, _)
JsonFields(m, r, keys) ==
    IF keys = <<>> THEN Ok(r)
    ELSE LET name == Head(keys)
             tag == Tag_from_str(name)
         IN  IF ~tag.ok THEN tag
             ELSE IF m[name].t \notin {"string", "u64"}
             THEN ErrKey("IncorrectFieldData", name)
             ELSE LET content == JsonContent(m[name])
                  IN  IF tag.val.kind = "Regular" THEN
                          JsonFields(m, [r EXCEPT !.tags =
                                            MapInsert(@, tag.val.i, content)],
                                     Tail(keys))
                      ELSE IF tag.val.kind = "Iso" THEN
                          JsonFields(m, [r EXCEPT !.iso_fields =
                                            MapInsert(@, tag.val.i, IsoString(content))],
                                     Tail(keys))
                      ELSE
                          JsonFields(m, [r EXCEPT !.iso_subfields =
                                            MapInsert(@, <<tag.val.i, tag.val.si>>,
                                                      IsoString(content))],
                                     Tail(keys))

\* match data.remove("Serno"): r is what set_mti returned, gen the value
\* gen_random_auth_serno() returns if it is called
JsonSerno(m, r, gen) ==
    IF ~r.ok THEN r
    ELSE IF KeySerno \notin DOMAIN m THEN
        JsonFields(m, [r.val EXCEPT !.auth_serno = gen], StrKeysAscending(DOMAIN m))
    ELSE IF m[KeySerno].t = "string" THEN
        LET n == ParseUnsigned(m[KeySerno].s, U64_MAX)
        IN  IF ~n.ok THEN ErrField("IncorrectFieldData", "Serno")
            ELSE JsonFields(MapRemove(m, KeySerno), [r.val EXCEPT !.auth_serno = n.val],
                            StrKeysAscending(DOMAIN m \ {KeySerno}))
    ELSE IF m[KeySerno].t = "u64" THEN
        JsonFields(MapRemove(m, KeySerno), [r.val EXCEPT !.auth_serno = m[KeySerno].n],
                   StrKeysAscending(DOMAIN m \ {KeySerno}))
    ELSE ErrField("IncorrectFieldData", "Serno")

\* fill_req_field!(set_mti, "MTI", "String"): r is what set_source returned
JsonMti(m, r, gen) ==
    IF ~r.ok THEN r
    ELSE IF KeyMTI \notin DOMAIN m THEN ErrField("MissingField", "MTI")
    ELSE IF m[KeyMTI].t # "string" THEN ErrField("IncorrectFieldData", "MTI")
    ELSE JsonSerno(MapRemove(m, KeyMTI), SigmaRequest_set_mti(r.val, m[KeyMTI].s), gen)

\* fill_req_field!(set_source, "SRC", "String"): r is what set_saf returned
JsonSrc(m, r, gen) ==
    IF ~r.ok THEN r
    ELSE IF KeySRC \notin DOMAIN m THEN ErrField("MissingField", "SRC")
    ELSE IF m[KeySRC].t # "string" THEN ErrField("IncorrectFieldData", "SRC")
    ELSE JsonMti(MapRemove(m, KeySRC), SigmaRequest_set_source(r.val, m[KeySRC].s), gen)

\* mutant: a missing "MTI" is reported before "SAF" is looked at
JsonSaf_MtiFirst(m, r, gen) ==
    IF KeyMTI \notin DOMAIN m THEN ErrField("MissingField", "MTI")
    ELSE IF ~r.ok THEN r
    ELSE IF KeySAF \notin DOMAIN m THEN ErrField("MissingField", "SAF")
    ELSE IF m[KeySAF].t # "string" THEN ErrField("IncorrectFieldData", "SAF")
    ELSE JsonSrc(MapRemove(m, KeySAF), SigmaRequest_set_saf(r.val, m[KeySAF].s), gen)

\* fill_req_field!(set_saf, "SAF", "String"): r is Self::new("N", "X", "0100", 0)
JsonSaf(m, r, gen) ==
    IF ~r.ok THEN r
    ELSE IF KeySAF \notin DOMAIN m THEN ErrField("MissingField", "SAF")
    ELSE IF m[KeySAF].t # "string" THEN ErrField("IncorrectFieldData", "SAF")
    ELSE JsonSrc(MapRemove(m, KeySAF), SigmaRequest_set_saf(r.val, m[KeySAF].s), gen)

\* SigmaRequest::from_json_value(data)
SigmaRequest_from_json_value(data, gen) ==
    IF data.t # "object" THEN Err("IncorrectData")
    ELSE JsonSaf(data.m, SigmaRequest_new(<<78>>, <<88>>, <<48, 49, 48, 48>>, <<0>>), gen)

(***************************************************************************)
(* JSON documents handed to from_json_value                                *)
(***************************************************************************)
\* m with key k bound to the value of opt, when there is one
WithKey(m, k, opt) == IF opt.some THEN MapInsert(m, k, opt.val) ELSE m

\* "SAF": absent, "Y", a rejected "X", the number 1234
JsonSafInputs == {None, Some(JString(<<89>>)), Some(JString(<<88>>)), Some(JU64(<<1,2,3,4>>))}

\* "SRC": absent, "M", a rejected "", the number 929292
JsonSrcInputs == {None, Some(JString(<<77>>)), Some(JString(<<>>)), Some(JU64(<<9,2,9,2,9,2>>))}

\* "MTI": absent, "0200", a rejected "02A0", the number 1200
JsonMtiInputs ==
    {None, Some(JString(<<48, 50, 48, 48>>)), Some(JString(<<48, 50, 65, 48>>)), Some(JU64(<<1,2,0,0>>))}

\* "Serno": absent, "6007040979", "12x", 123, null
JsonSernoInputs ==
    {None, Some(JString(<<54, 48, 48, 55, 48, 52, 48, 57, 55, 57>>)), Some(JString(<<49, 50, 120>>)), Some(JU64(<<1,2,3>>)),
     Some(JOther)}

\* {"T0000": "02371492071643"}
FieldsOneTag == MapInsert(EmptyMap, <<84, 48, 48, 48, 48>>, JString(<<48, 50, 51, 55, 49, 52, 57, 50, 48, 55, 49, 54, 52, 51>>))

\* {"T0001": "x", "i002": 643, "s001902": "Y", "t0019": 0}
FieldsAllVariants ==
    MapInsert(MapInsert(MapInsert(MapInsert(EmptyMap,
        <<84, 48, 48, 48, 49>>, JString(<<120>>)),
        <<105, 48, 48, 50>>, JU64(<<6,4,3>>)),
        <<115, 48, 48, 49, 57, 48, 50>>, JString(<<89>>)),
        <<116, 48, 48, 49, 57>>, JU64(<<0>>))

\* {"I127": "", "S999999": "z"}
FieldsUpperCase ==
    MapInsert(MapInsert(EmptyMap, <<73, 49, 50, 55>>, JString(<<>>)), <<83, 57, 57, 57, 57, 57, 57>>, JString(<<122>>))

\* {"T0001": "a", "t0001": "b"}: two keys that name Regular(1)
FieldsSameTag ==
    MapInsert(MapInsert(EmptyMap, <<84, 48, 48, 48, 49>>, JString(<<97>>)), <<116, 48, 48, 48, 49>>, JString(<<98>>))

\* {"X123": "a"}
FieldsUnknownKind == MapInsert(EmptyMap, <<88, 49, 50, 51>>, JString(<<97>>))

\* {"T12AB": "a"}
FieldsBadDigits == MapInsert(EmptyMap, <<84, 49, 50, 65, 66>>, JString(<<97>>))

\* {"T001": "a"}
FieldsShortKey == MapInsert(EmptyMap, <<84, 48, 48, 49>>, JString(<<97>>))

\* {"i1000": "a"}
FieldsLongIso == MapInsert(EmptyMap, <<105, 49, 48, 48, 48>>, JString(<<97>>))

\* {"": "a"}
FieldsEmptyKey == MapInsert(EmptyMap, <<>>, JString(<<97>>))

\* {"T0001": null}
FieldsBadValue == MapInsert(EmptyMap, <<84, 48, 48, 48, 49>>, JOther)

\* {"T0001": null, "X123": "a"}
FieldsBadValueThenBadKey ==
    MapInsert(MapInsert(EmptyMap, <<84, 48, 48, 48, 49>>, JOther), <<88, 49, 50, 51>>, JString(<<97>>))

\* {"i002": "a", "zz": null}
FieldsGoodThenBadKey ==
    MapInsert(MapInsert(EmptyMap, <<105, 48, 48, 50>>, JString(<<97>>)), <<122, 122>>, JOther)

\* {"T+123": "a"}: parse::<u16>() takes the sign
FieldsSignedKey == MapInsert(EmptyMap, <<84, 43, 49, 50, 51>>, JString(<<97>>))

JsonFieldsInputs ==
    { EmptyMap, FieldsOneTag, FieldsAllVariants, FieldsUpperCase, FieldsSameTag,
      FieldsUnknownKind, FieldsBadDigits, FieldsShortKey, FieldsLongIso,
      FieldsEmptyKey, FieldsBadValue, FieldsBadValueThenBadKey,
      FieldsGoodThenBadKey, FieldsSignedKey }

JsonOf(saf, source, mti, serno, fields) ==
    JObject(WithKey(WithKey(WithKey(WithKey(fields, KeySerno, serno),
                                    KeyMTI, mti), KeySRC, source), KeySAF, saf))

\* every combination of header keys over three bodies, every body and Serno
\* under a valid header, and two documents that are no objects
JsonInputs ==
    { JsonOf(saf, source, mti, serno, fields) :
        saf \in JsonSafInputs, source \in JsonSrcInputs, mti \in JsonMtiInputs,
        serno \in {None, Some(JString(<<49, 50, 120>>))},
        fields \in {FieldsOneTag, FieldsUnknownKind} }
    \cup
    { JsonOf(Some(JString(<<89>>)), Some(JString(<<77>>)), Some(JString(<<48, 50, 48, 48>>)),
             serno, fields) :
        serno \in JsonSernoInputs, fields \in JsonFieldsInputs }
    \cup {JOther, JString(<<89>>)}

\* the documents the interface is driven with: five bodies with and without
\* "Serno" under a valid header, and one document per header key that fails
JsonApiInputs ==
    { JsonOf(Some(JString(<<78>>)), Some(JString(<<77>>)), Some(JString(<<48, 50, 48, 48>>)),
             serno, fields) :
        serno \in {None, Some(JU64(<<1,2,3>>))},
        fields \in {EmptyMap, FieldsAllVariants, FieldsSameTag, FieldsUnknownKind,
                    FieldsBadValue} }
    \cup
    { JsonOf(Some(JString(<<88>>)), Some(JString(<<77>>)), Some(JString(<<48, 50, 48, 48>>)),
             None, EmptyMap),
      JsonOf(Some(JString(<<89>>)), Some(JString(<<>>)), Some(JString(<<48, 50, 48, 48>>)),
             None, EmptyMap),
      JsonOf(Some(JString(<<89>>)), Some(JString(<<77>>)), Some(JString(<<48, 50, 65, 48>>)),
             None, EmptyMap) }

\* what gen_random_auth_serno() returns: any u64
GenInputs == {<<0>>, <<7,8,7,7,7,0,6,9,6,5,6,8,7,1,9,2,0,2,3>>, U64_MAX}

(***************************************************************************)
(* The public interface of the model types.  A program holds one request   *)
(* and one response: it builds each with a constructor, the JSON adapter   *)
(* or the wire decoder, then calls the setters and writes the pub fields   *)
(* in any order.  The last call and its result are kept in `last`.         *)
(***************************************************************************)
\* "Y", "N", a rejected "X" and a rejected "YN"
ApiSafInputs == SafInputs \cup {<<89, 78>>}

\* "M", "X", and the rejected "", "MX" and U+00E9 (two bytes)
ApiSourceInputs == SourceInputs \cup {<<88>>, <<77, 88>>, <<195, 169>>}

\* "0200", "0100", and the rejected "02A0", "020", "02000", "+200"
ApiMtiInputs ==
    MtiInputs \cup {<<48, 49, 48, 48>>, <<48, 50, 48>>, <<48, 50, 48, 48, 48>>,
                    <<43, 50, 48, 48>>}

\* 0, 6007040979 and u64::MAX
ApiSernoInputs == {<<0>>, <<6,0,0,7,0,4,0,9,7,9>>, U64_MAX}

\* frames handed to SigmaRequest::decode: "00016YM02006007040979", the same
\* with saf "X", with the source byte 0xFF, with mti "02A0", and a short one
ApiFrameInputs ==
    { <<48,48,48,49,54, 89, 77, 48,50,48,48, 54,48,48,55,48,52,48,57,55,57>>,
      <<48,48,48,49,54, 88, 77, 48,50,48,48, 54,48,48,55,48,52,48,57,55,57>>,
      <<48,48,48,49,54, 89, 255, 48,50,48,48, 54,48,48,55,48,52,48,57,55,57>>,
      <<48,48,48,49,54, 89, 77, 48,50,65,48, 54,48,48,55,48,52,48,57,55,57>>,
      <<48,48,48,49,54, 89, 77, 48,50,48,48>> }

\* `self` after a call that returned r: a setter returns at the `?` before
\* it assigns, a constructor or decoder that fails yields no value
SelfAfter(self, r) == IF r.ok THEN Some(r.val) ELSE self

\* what a setter hands back: Ok(()) or the validator's error
UnitResult(r) == IF r.ok THEN Ok(<<>>) ELSE r

SetterCall(name, self, v, r) ==
    [op |-> name, before |-> self, arg |-> v, res |-> UnitResult(r),
     after |-> SelfAfter(Some(self), r).val]

ApiIdle == UNCHANGED <<wire, back, frames, fed, src, dst, delivered>>

\* arguments of SigmaRequest::new: two accepted tuples, and one rejected for
\* each validator
ApiNewInputs ==
    { <<<<89>>, <<77>>, <<48, 50, 48, 48>>, <<6,0,0,7,0,4,0,9,7,9>>>>,
      <<<<78>>, <<88>>, <<48, 49, 48, 48>>, <<0>>>>,
      <<<<88>>, <<77>>, <<48, 50, 48, 48>>, <<0>>>>,
      <<<<89>>, <<195, 169>>, <<48, 50, 48, 48>>, <<0>>>>,
      <<<<89>>, <<77>>, <<48, 50, 65, 48>>, <<0>>>> }

\* SigmaRequest::new(saf, source, mti, auth_serno)
ApiRequestNew ==
    /\ ~req.some
    /\ \E a \in ApiNewInputs :
          \E r \in {SigmaRequest_new(a[1], a[2], a[3], a[4])} :
              /\ req' = SelfAfter(req, r)
              /\ last' = [op |-> "SigmaRequest::new", res |-> r]
    /\ UNCHANGED resp
    /\ ApiIdle

\* SigmaRequest::from_json_value(data); gen is what the generator returns if
\* the call draws from it
ApiFromJson ==
    /\ ~req.some
    /\ \E data \in JsonApiInputs, gen \in GenInputs :
          \E r \in {SigmaRequest_from_json_value(data, gen)} :
              /\ req' = SelfAfter(req, r)
              /\ last' = [op |-> "from_json_value", arg |-> data, gen |-> gen,
                          res |-> r]
    /\ UNCHANGED resp
    /\ ApiIdle

\* SigmaRequest::decode(frame)
ApiRequestDecode ==
    /\ ~req.some
    /\ \E frame \in ApiFrameInputs :
          \E r \in {SigmaRequest_decode(frame)} :
              /\ req' = SelfAfter(req, r)
              /\ last' = [op |-> "SigmaRequest::decode", res |-> r]
    /\ UNCHANGED resp
    /\ ApiIdle

\* req.set_saf(v)
ApiSetSaf ==
    /\ req.some
    /\ \E v \in ApiSafInputs :
          \E r \in {SigmaRequest_set_saf(req.val, v)} :
              /\ req' = SelfAfter(req, r)
              /\ last' = SetterCall("set_saf", req.val, v, r)
    /\ UNCHANGED resp
    /\ ApiIdle

\* req.set_source(v)
ApiSetSource ==
    /\ req.some
    /\ \E v \in ApiSourceInputs :
          \E r \in {SigmaRequest_set_source(req.val, v)} :
              /\ req' = SelfAfter(req, r)
              /\ last' = SetterCall("set_source", req.val, v, r)
    /\ UNCHANGED resp
    /\ ApiIdle

\* req.set_mti(v)
ApiSetMti ==
    /\ req.some
    /\ \E v \in ApiMtiInputs :
          \E r \in {SigmaRequest_set_mti(req.val, v)} :
              /\ req' = SelfAfter(req, r)
              /\ last' = SetterCall("set_mti", req.val, v, r)
    /\ UNCHANGED resp
    /\ ApiIdle

\* req.auth_serno = n
ApiWriteSerno ==
    /\ req.some
    /\ \E n \in ApiSernoInputs :
          req' = Some([req.val EXCEPT !.auth_serno = n])
    /\ last' = [op |-> "write auth_serno"]
    /\ UNCHANGED resp
    /\ ApiIdle

\* req.tags.insert(k, v), req.iso_fields.insert(k, v),
\* req.iso_subfields.insert((k, k1), v)
ApiWriteMaps ==
    /\ req.some
    /\ FieldCount(req.val) < MaxFields
    /\ \E r \in { [req.val EXCEPT !.tags = MapInsert(@, 1, <<67>>)],
                   [req.val EXCEPT !.iso_fields = MapInsert(@, 2, IsoRaw(<<255>>))],
                   [req.val EXCEPT !.iso_subfields =
                       MapInsert(@, <<19, 2>>, IsoString(<<89>>))] } :
          req' = Some(r)
    /\ last' = [op |-> "write maps"]
    /\ UNCHANGED resp
    /\ ApiIdle

\* SigmaResponse::new(mti, auth_serno, reason)
ApiResponseNew ==
    /\ ~resp.some
    /\ \E mti \in ApiMtiInputs :
          \E r \in {SigmaResponse_new(mti, <<0>>, <<0>>)} :
              /\ resp' = SelfAfter(resp, r)
              /\ last' = [op |-> "SigmaResponse::new", res |-> r]
    /\ UNCHANGED req
    /\ ApiIdle

\* resp.set_mti(v)
ApiResponseSetMti ==
    /\ resp.some
    /\ \E v \in ApiMtiInputs :
          \E r \in {SigmaResponse_set_mti(resp.val, v)} :
              /\ resp' = SelfAfter(resp, r)
              /\ last' = SetterCall("SigmaResponse::set_mti", resp.val, v, r)
    /\ UNCHANGED req
    /\ ApiIdle

(***************************************************************************)
(* lib.rs: #[derive(Deserialize)] for FeeData and SigmaResponse, read from *)
(* a serde_json value                                                      *)
(***************************************************************************)
\* null
JNull == [t |-> "null"]

\* an array of values
JArray(a) == [t |-> "array", a |-> a]

KeyMti == <<109, 116, 105>>

KeyAuthSerno == <<97, 117, 116, 104, 95, 115, 101, 114, 110, 111>>

KeyReason == <<114, 101, 97, 115, 111, 110>>

KeyFees == <<102, 101, 101, 115>>

KeyAdata == <<97, 100, 97, 116, 97>>

KeyCurrency == <<99, 117, 114, 114, 101, 110, 99, 121>>

KeyAmount == <<97, 109, 111, 117, 110, 116>>

\* the value a derived visitor sees for a field: by name in a map, by
\* position in a sequence
StructField(v, key, pos) ==
    IF v.t = "object"
    THEN IF key \in DOMAIN v.m THEN Some(v.m[key]) ELSE None
    ELSE IF pos <= Len(v.a) THEN Some(v.a[pos]) ELSE None

\* a struct of n fields is read from a map, or from a sequence of n elements
StructShape(v, n) == v.t = "object" \/ (v.t = "array" /\ Len(v.a) = n)

\* an unsigned integer field of the given width
UnsignedField(f, max) == f.some /\ f.val.t = "u64" /\ NumLeq(f.val.n, max)

\* a String field
StringField(f) == f.some /\ f.val.t = "string"

\* #[derive(Deserialize)] struct FeeData { reason: u16, currency: u16, amount: u64 }
FeeData_deserialize(v) ==
    IF ~StructShape(v, 3) THEN Err("serde")
    ELSE IF ~UnsignedField(StructField(v, KeyReason, 1), U16_MAX) THEN Err("serde")
    ELSE IF ~UnsignedField(StructField(v, KeyCurrency, 2), U16_MAX) THEN Err("serde")
    ELSE IF ~UnsignedField(StructField(v, KeyAmount, 3), U64_MAX) THEN Err("serde")
    ELSE Ok([reason |-> IntOfNum(StructField(v, KeyReason, 1).val.n),
             currency |-> IntOfNum(StructField(v, KeyCurrency, 2).val.n),
             amount |-> StructField(v, KeyAmount, 3).val.n])

\* fees: Vec<FeeData>; the field is required
FeesField(f) ==
    /\ f.some
    /\ f.val.t = "array"
    /\ \A n \in 1..Len(f.val.a) : FeeData_deserialize(f.val.a[n]).ok

\* adata: Option<String>; a missing key of a map and null are None
AdataField(v, f) ==
    IF ~f.some THEN (IF v.t = "object" THEN Ok(None) ELSE Err("serde"))
    ELSE IF f.val.t = "null" THEN Ok(None)
    ELSE IF f.val.t = "string" THEN Ok(Some(f.val.s))
    ELSE Err("serde")

\* #[derive(Deserialize)] struct SigmaResponse: the mti is taken as any
\* String, no validator runs
SigmaResponse_deserialize(v) ==
    IF ~StructShape(v, 5) THEN Err("serde")
    ELSE IF ~StringField(StructField(v, KeyMti, 1)) THEN Err("serde")
    ELSE IF ~UnsignedField(StructField(v, KeyAuthSerno, 2), U64_MAX) THEN Err("serde")
    ELSE IF ~UnsignedField(StructField(v, KeyReason, 3), U32_MAX) THEN Err("serde")
    ELSE IF ~FeesField(StructField(v, KeyFees, 4)) THEN Err("serde")
    ELSE IF ~AdataField(v, StructField(v, KeyAdata, 5)).ok THEN Err("serde")
    ELSE Ok([mti |-> StructField(v, KeyMti, 1).val.s,
             auth_serno |-> StructField(v, KeyAuthSerno, 2).val.n,
             reason |-> StructField(v, KeyReason, 3).val.n,
             fees |-> [n \in 1..Len(StructField(v, KeyFees, 4).val.a) |->
                          FeeData_deserialize(StructField(v, KeyFees, 4).val.a[n]).val],
             adata |-> AdataField(v, StructField(v, KeyAdata, 5)).val])

\* {"mti": mti, "auth_serno": 0, "reason": 0, "fees": []}
ResponseJson(mti) ==
    JObject(MapInsert(MapInsert(MapInsert(MapInsert(EmptyMap,
        KeyMti, mti), KeyAuthSerno, JU64(<<0>>)), KeyReason, JU64(<<0>>)),
        KeyFees, JArray(<<>>)))

\* {"reason": 8116, "currency": 643, "amount": 9000}
FeeJson ==
    JObject(MapInsert(MapInsert(MapInsert(EmptyMap,
        KeyReason, JU64(<<8,1,1,6>>)), KeyCurrency, JU64(<<6,4,3>>)),
        KeyAmount, JU64(<<9,0,0,0>>)))

\* documents with the mti "0110", "0430", "AB", "" and 110, one without "fees",
\* one with a reason beyond u32, one with a fee and adata, the same as a
\* sequence, one with adata null, and a string
ResponseJsonInputs ==
    { ResponseJson(JString(<<48, 49, 49, 48>>)),
      ResponseJson(JString(<<48, 52, 51, 48>>)),
      ResponseJson(JString(<<65, 66>>)),
      ResponseJson(JString(<<>>)),
      ResponseJson(JU64(<<1,1,0>>)),
      JObject(MapRemove(ResponseJson(JString(<<48, 49, 49, 48>>)).m, KeyFees)),
      JObject(MapInsert(ResponseJson(JString(<<48, 49, 49, 48>>)).m,
                        KeyReason, JU64(<<4,2,9,4,9,6,7,2,9,6>>))),
      JObject(MapInsert(MapInsert(ResponseJson(JString(<<48, 49, 49, 48>>)).m,
                                  KeyFees, JArray(<<FeeJson>>)),
                        KeyAdata, JString(<<67, 74>>))),
      JArray(<<JString(<<48, 49, 49, 48>>), JU64(<<0>>), JU64(<<0>>),
               JArray(<<FeeJson>>), JString(<<67, 74>>)>>),
      JObject(MapInsert(ResponseJson(JString(<<48, 49, 49, 48>>)).m,
                        KeyAdata, JNull)),
      JString(<<48, 49, 49, 48>>) }

\* frames with the mti "0110" and "01A0", and a body that is too short
ApiResponseFrameInputs ==
    { FrameA,
      <<48,48,48,49,52, 48,49,49,48, 52,48,48,55,48,52,48,57,55,56>>,
      <<48,48,48,49,52, 48,49,65,48, 52,48,48,55,48,52,48,57,55,56>>,
      FrameBadBody }

\* serde_json::from_value::<SigmaResponse>(doc)
ApiResponseDeserialize ==
    /\ ~resp.some
    /\ \E doc \in ResponseJsonInputs :
          \E r \in {SigmaResponse_deserialize(doc)} :
              /\ resp' = SelfAfter(resp, r)
              /\ last' = [op |-> "SigmaResponse::deserialize", res |-> r]
    /\ UNCHANGED req
    /\ ApiIdle

\* SigmaResponse::decode(frame)
ApiResponseDecode ==
    /\ ~resp.some
    /\ \E frame \in ApiResponseFrameInputs :
          \E r \in {SigmaResponse_decode(frame)} :
              /\ resp' = SelfAfter(resp, r)
              /\ last' = [op |-> "SigmaResponse::decode", res |-> r]
    /\ UNCHANGED req
    /\ ApiIdle

NextApi ==
    \/ ApiRequestNew
    \/ ApiFromJson
    \/ ApiRequestDecode
    \/ ApiSetSaf
    \/ ApiSetSource
    \/ ApiSetMti
    \/ ApiWriteSerno
    \/ ApiWriteMaps
    \/ ApiResponseNew
    \/ ApiResponseSetMti

SpecApi == Init /\ [][NextApi]_vars

\* the ways a SigmaResponse is obtained and changed
NextResponse ==
    \/ ApiResponseNew
    \/ ApiResponseSetMti
    \/ ApiResponseDeserialize
    \/ ApiResponseDecode

SpecResponse == Init /\ [][NextResponse]_vars

(***************************************************************************)
(* C11  A setter that fails changes nothing.                               *)
(***************************************************************************)
\* the header values the data model allows
ValidSaf(v) == v = <<89>> \/ v = <<78>>

ValidSource(v) == Len(v) = 1

ValidMti(v) == Len(v) = 4 /\ AllDigitBytes(v)

RequestSetters == {"set_saf", "set_source", "set_mti"}

Setters == RequestSetters \cup {"SigmaResponse::set_mti"}

\* the field a setter writes
SetterField(op) ==
    IF op = "set_saf" THEN "saf" ELSE IF op = "set_source" THEN "source" ELSE "mti"

SetterAccepts(op, v) ==
    IF op = "set_saf" THEN ValidSaf(v)
    ELSE IF op = "set_source" THEN ValidSource(v)
    ELSE ValidMti(v)

\* C11: a setter called with a value its validator rejects returns an error
\* and leaves every field of the value as it was; called with an accepted
\* value it returns Ok and changes the targeted header field only.  This
\* holds for set_saf, set_source, set_mti of SigmaRequest and for set_mti of
\* SigmaResponse.
C11_FailedSetter ==
    (last.op \in Setters) =>
        /\ IF SetterAccepts(last.op, last.arg)
           THEN /\ last.res.ok
                /\ last.after = [last.before EXCEPT ![SetterField(last.op)] = last.arg]
           ELSE /\ ~last.res.ok
                /\ last.after = last.before
        /\ last.op \in RequestSetters => req = Some(last.after)
        /\ last.op = "SigmaResponse::set_mti" => resp = Some(last.after)

\* set_source was refused a two-byte character on a request that has fields
C11_Witness ==
    /\ last.op = "set_source"
    /\ last.arg = <<195, 169>>
    /\ ~last.res.ok
    /\ DOMAIN last.before.tags # {}
    /\ DOMAIN last.before.iso_subfields # {}

(***************************************************************************)
(* C12  The header of every request is valid.                              *)
(***************************************************************************)
HeaderValid(r) == ValidSaf(r.saf) /\ ValidSource(r.source) /\ ValidMti(r.mti)

\* the bytes encode() writes between the length prefix and the fields
HeaderBytes(r) == r.saf \o r.source \o r.mti \o AuthSernoBytes(r.auth_serno)

RequestBuilders == {"SigmaRequest::new", "from_json_value", "SigmaRequest::decode"}

\* C12: whatever sequence of new, from_json_value, decode, set_saf,
\* set_source, set_mti and writes to auth_serno and the maps has run, every
\* SigmaRequest there is (the one held, the one a builder returned, the one a
\* setter left behind) has saf "Y" or "N", a source of one byte and an mti of
\* four ASCII digits, so that its encoded header is 16 bytes.
C12_HeaderInvariant ==
    /\ req.some => HeaderValid(req.val) /\ Len(HeaderBytes(req.val)) = 16
    /\ (last.op \in RequestBuilders /\ last.res.ok) => HeaderValid(last.res.val)
    /\ last.op \in RequestSetters => HeaderValid(last.after)

\* a request built from JSON with a generated serno, then changed by set_saf,
\* set_mti and a write to iso_fields
C12_Witness ==
    /\ req.some
    /\ last.op = "write maps"
    /\ req.val.saf = <<89>>
    /\ req.val.mti = <<48, 49, 48, 48>>
    /\ req.val.auth_serno = U64_MAX
    /\ DOMAIN req.val.tags = {1}
    /\ req.val.tags[1] = <<98>>
    /\ DOMAIN req.val.iso_fields = {2}
    /\ req.val.iso_fields[2] = IsoRaw(<<255>>)

(***************************************************************************)
(* The functions of the crate applied to one input: the input is drawn     *)
(* first, the call made once.                                              *)
(***************************************************************************)
Pending(call) == last.op = "pending" /\ last.call = call

JsonCalls ==
    { [op |-> "pending", call |-> "from_json_value", arg |-> data, gen |-> gen] :
        data \in JsonInputs, gen \in GenInputs }

\* indices of the valid tags: 0, 19, 999, 1000, 9999
TagIndexInputs == {0, 19, 999, 1000, 9999}

\* sub-indices: 0, 2, 99
TagSubIndexInputs == {0, 2, 99}

TagInputs ==
    {Regular(i) : i \in TagIndexInputs}
        \cup {Iso(i) : i \in TagIndexInputs}
        \cup {IsoSubfield(i, si) : i \in TagIndexInputs, si \in TagSubIndexInputs}

TagCalls ==
    { [op |-> "pending", call |-> "Tag::to_string", arg |-> tag] : tag \in TagInputs }

\* a request with an entry in each map
RequestAllMaps ==
    [RequestWithTag EXCEPT !.iso_fields = MapInsert(@, 2, IsoRaw(<<255>>)),
                           !.iso_subfields = MapInsert(@, <<19, 2>>, IsoString(<<89>>))]

\* valid frames: what encode() returns
RequestFrameInputs ==
    {SigmaRequest_encode(r).val : r \in {RequestPlain, RequestWithTag, RequestAllMaps}}

ResponseFrameInputs == {FrameA, FrameB}

\* valid fields: what encode_field_to_buf() writes
FieldOf(tag, data) == encode_field_to_buf(tag, data, <<>>).val

FieldInputs ==
    { FieldOf(Regular(31), <<56, 49, 48, 48>>),
      FieldOf(Iso(2), <<255, 0>>),
      FieldOf(IsoSubfield(19, 2), <<>>) }

\* a frame or field and the length of a proper prefix of it
TruncationCalls(call, inputs) ==
    UNION { { [op |-> "pending", call |-> call, frame |-> f, n |-> n] :
                n \in 0..(Len(f) - 1) } : f \in inputs }

TruncatedCalls ==
    TruncationCalls("truncated request", RequestFrameInputs)
        \cup TruncationCalls("truncated response", ResponseFrameInputs)
        \cup TruncationCalls("truncated field", FieldInputs)

\* the longest field list of a response frame
MaxWireFields == 3

\* well-formed fields, as <<tag, payload>>: the three interpreted tags with
\* payloads that parse and payloads that do not, and tags of every variant
\* that share an index with them
WireFieldInputs ==
    { <<Regular(31), <<56, 49, 48, 48>>>>,
      <<Regular(31), <<43, 53>>>>,
      <<Regular(31), <<65, 66>>>>,
      <<Regular(32), <<56, 49, 49, 54, 54, 52, 51, 57, 48, 48, 48>>>>,
      <<Regular(32), <<48, 48, 48, 49, 57, 55, 56, 48>>>>,
      <<Regular(32), <<56, 49, 49, 54, 54, 52, 51>>>>,
      <<Regular(48), <<67, 74>>>>,
      <<Regular(48), <<255>>>>,
      <<Regular(30), <<65, 66>>>>,
      <<Iso(31), <<65, 66>>>>,
      <<IsoSubfield(32, 48), <<65, 66>>>> }

WireFieldLists ==
    UNION { [1..n -> WireFieldInputs] : n \in 0..MaxWireFields }

\* a response frame: length prefix, mti "0110", serno, then the fields
FrameOfFields(fields) ==
    PatchLength(<<48, 48, 48, 48, 48>> \o <<48, 49, 49, 48>>
                \o <<48, 48, 48, 48, 48, 48, 48, 49, 50, 51>>
                \o Concat([n \in 1..Len(fields) |->
                              FieldOf(fields[n][1], fields[n][2])])).val

ResponseFieldCalls ==
    { [op |-> "pending", call |-> "response fields", fields |-> fs] :
        fs \in WireFieldLists }

\* fees around the two limits of FeeData::encode
FeeReasonInputs == {0, 84, 9999, 10000, 65535}

FeeCurrencyInputs == {0, 7, 643, 999, 1000, 65535}

FeeAmountInputs == {<<0>>, <<9, 0, 0, 0>>, U64_MAX}

FeeEncodeCalls ==
    { [op |-> "pending", call |-> "FeeData::encode",
       arg |-> [reason |-> r, currency |-> c, amount |-> a]] :
        r \in FeeReasonInputs, c \in FeeCurrencyInputs, a \in FeeAmountInputs }

\* FeeData::from_slice of what encode returned
FeeDecoded(e) == IF e.ok THEN FeeData_from_slice(e.val) ELSE Err("not encoded")

\* the longest payload a field can carry
MaxPayload == 9999

\* a request with tags 1..count, each with a payload of size bytes
RequestOfSize(count, size) ==
    [RequestPlain EXCEPT !.tags = [k \in 1..count |-> Repeat(65, size)]]

RequestEncodeInputs == {RequestPlain, RequestAllMaps, RequestOutOfBounds}

\* <<count, size>>: 9 fields of 9999 bytes make a body of 90061 bytes, 10
\* make one of 100066 bytes; one payload beyond the BCD limit, one beyond
\* the width of a u16
RequestSizeInputs ==
    {<<1, MaxPayload>>, <<9, MaxPayload>>, <<10, MaxPayload>>,
     <<1, MaxPayload + 1>>, <<1, 65536>>}

\* what a call wrote: the number of bytes and the first of them
Written(r) ==
    IF r.ok THEN [ok |-> TRUE, len |-> Len(r.val), head |-> Take(r.val, 27)]
    ELSE r

\* a response with a fee and the longest adata
ResponseLongAdata == [ResponseB EXCEPT !.adata = Some(Repeat(65, MaxPayload))]

\* a response whose fee is beyond the bounds of FeeData::encode
ResponseBadFee ==
    [ResponseA EXCEPT !.fees = <<[reason |-> 10000, currency |-> 643,
                                  amount |-> <<1>>]>>]

ResponseEncodeInputs == {ResponseA, ResponseB, ResponseLongAdata, ResponseBadFee}

EncodeCalls ==
    { [op |-> "pending", call |-> "SigmaRequest::encode", arg |-> r] :
        r \in RequestEncodeInputs }
    \cup { [op |-> "pending", call |-> "SigmaRequest::encode of size",
             count |-> s[1], size |-> s[2]] : s \in RequestSizeInputs }
    \cup { [op |-> "pending", call |-> "SigmaResponse::encode", arg |-> s] :
             s \in ResponseEncodeInputs }

\* payload lengths around the BCD limit and around the width of a u16
PayloadLengthInputs == {0, MaxPayload, MaxPayload + 1, 65535, 65536, 65541}

FieldTagInputs == {Regular(31), Iso(2), IsoSubfield(19, 2), Regular(10000)}

EncodeFieldCalls ==
    { [op |-> "pending", call |-> "encode_field_to_buf", tag |-> tag,
       size |-> n] :
        tag \in FieldTagInputs, n \in PayloadLengthInputs }

PendingCalls == JsonCalls \cup TagCalls \cup TruncatedCalls \cup ResponseFieldCalls \cup FeeEncodeCalls

InitPure ==
    /\ InitMsg
    /\ frames = <<>>
    /\ fed = 0
    /\ src = <<>>
    /\ dst = <<>>
    /\ delivered = <<>>
    /\ last \in PendingCalls

PureIdle == UNCHANGED <<req, resp, wire, back, frames, fed, src, dst, delivered>>

\* SigmaRequest::from_json_value(data)
CallFromJson ==
    /\ Pending("from_json_value")
    /\ last' = [op |-> "from_json_value", arg |-> last.arg, gen |-> last.gen,
                res |-> SigmaRequest_from_json_value(last.arg, last.gen)]
    /\ PureIdle

\* Tag::from_str(&tag.to_string())
CallTagText ==
    /\ Pending("Tag::to_string")
    /\ last' = [op |-> "Tag::to_string", arg |-> last.arg,
                text |-> Tag_to_string(last.arg),
                res |-> Tag_from_str(Tag_to_string(last.arg))]
    /\ PureIdle

\* SigmaRequest::decode(p), p a proper prefix of a frame
CallTruncatedRequest ==
    /\ Pending("truncated request")
    /\ last' = [op |-> "truncated request", frame |-> last.frame,
                arg |-> Take(last.frame, last.n),
                res |-> SigmaRequest_decode(Take(last.frame, last.n))]
    /\ PureIdle

\* SigmaResponse::decode(p), p a proper prefix of a frame
CallTruncatedResponse ==
    /\ Pending("truncated response")
    /\ last' = [op |-> "truncated response", frame |-> last.frame,
                arg |-> Take(last.frame, last.n),
                res |-> SigmaResponse_decode(Take(last.frame, last.n))]
    /\ PureIdle

\* decode_field_from_cursor(p), p a proper prefix of a field
CallTruncatedField ==
    /\ Pending("truncated field")
    /\ last' = [op |-> "truncated field", frame |-> last.frame,
                arg |-> Take(last.frame, last.n),
                res |-> decode_field_from_cursor(Take(last.frame, last.n))]
    /\ PureIdle

\* SigmaResponse::decode of a frame built from a list of fields
CallResponseFields ==
    /\ Pending("response fields")
    /\ last' = [op |-> "response fields", fields |-> last.fields,
                arg |-> FrameOfFields(last.fields),
                res |-> SigmaResponse_decode(FrameOfFields(last.fields))]
    /\ PureIdle

\* fee.encode(), then FeeData::from_slice on the bytes
CallFeeEncode ==
    /\ Pending("FeeData::encode")
    /\ last' = [op |-> "FeeData::encode", arg |-> last.arg,
                res |-> FeeData_encode(last.arg),
                decoded |-> FeeDecoded(FeeData_encode(last.arg))]
    /\ PureIdle

NextPure ==
    \/ CallFromJson
    \/ CallTagText
    \/ CallTruncatedRequest
    \/ CallTruncatedResponse
    \/ CallTruncatedField
    \/ CallResponseFields
    \/ CallFeeEncode

SpecPure == InitPure /\ [][NextPure]_vars

(***************************************************************************)
(* The encoders and the binary field codec, one call at a time.            *)
(***************************************************************************)
\* 'T', 'I', 'S' and 'X'
TagKindByteInputs == {84, 73, 83, 88}

\* index bytes: 0031, 9999, a low nibble of 10, a high nibble of 10
TagIndexByteInputs == {<<0, 49>>, <<153, 153>>, <<10, 0>>, <<0, 160>>}

\* sub bytes: 00, 99, a low nibble of 15
TagSubByteInputs == {0, 153, 31}

\* four-byte inputs, inputs that are too short and one that is longer
TagBytesInputs ==
    { <<k>> \o i \o <<s>> :
        k \in TagKindByteInputs, i \in TagIndexByteInputs, s \in TagSubByteInputs }
    \cup { <<>>, <<84>>, <<84, 0, 49>>, <<84, 0, 49, 0, 0>> }

TagDecodeCalls ==
    { [op |-> "pending", call |-> "Tag::decode", bytes |-> b] : b \in TagBytesInputs }

\* well-formed request fields, as <<tag, payload>>: tags out of order, a
\* tag twice, a payload that is not UTF-8
RequestWireFieldInputs ==
    { <<Regular(1), <<97>>>>,
      <<Regular(2), <<98>>>>,
      <<Regular(1), <<99>>>>,
      <<Regular(3), <<255>>>>,
      <<Iso(2), <<120>>>>,
      <<Iso(1), <<255>>>>,
      <<IsoSubfield(19, 2), <<89>>>>,
      <<IsoSubfield(19, 1), <<90>>>> }

RequestWireFieldLists ==
    UNION { [1..n -> RequestWireFieldInputs] : n \in 0..MaxWireFields }

\* a request frame: length prefix, "Y", "M", "0201", serno, then the fields
RequestFrameOfFields(fields) ==
    PatchLength(<<48, 48, 48, 48, 48>> \o <<89, 77, 48, 50, 48, 49>>
                \o <<48, 48, 48, 48, 48, 48, 48, 49, 50, 51>>
                \o Concat([n \in 1..Len(fields) |->
                              FieldOf(fields[n][1], fields[n][2])])).val

RequestFieldCalls ==
    { [op |-> "pending", call |-> "request fields", fields |-> fs] :
        fs \in RequestWireFieldLists }

\* byte sequences that are UTF-8: empty, ASCII, and characters of 2, 3 and
\* 4 bytes
Utf8Inputs ==
    { <<>>, <<48, 49, 48, 48>>, <<195, 169>>, <<226, 130, 172>>,
      <<240, 159, 152, 128>>, <<65, 195, 169, 66>> }

\* byte sequences that are not: a stray byte, a character cut short, an
\* overlong form, a surrogate, a code point beyond U+10FFFF, a stray
\* continuation byte
NotUtf8Inputs ==
    { <<255>>, <<195>>, <<65, 255, 66>>, <<192, 128>>, <<237, 160, 128>>,
      <<244, 144, 128, 128>>, <<128>>, <<226, 130>> }

IsoBytesCalls ==
    { [op |-> "pending", call |-> "IsoFieldData::from_bytes", bytes |-> b] :
        b \in Utf8Inputs \cup NotUtf8Inputs }

\* Iso and IsoSubfield fields with payloads of both kinds, and a Regular one
IsoWireFieldInputs ==
    { <<Iso(2), <<120>>>>,
      <<Iso(2), <<255>>>>,
      <<Iso(3), <<195, 169>>>>,
      <<Iso(3), <<195>>>>,
      <<IsoSubfield(19, 2), <<>>>>,
      <<IsoSubfield(19, 2), <<255, 0>>>>,
      <<Regular(1), <<97>>>> }

IsoWireFieldLists ==
    UNION { [1..n -> IsoWireFieldInputs] : n \in 0..MaxWireFields }

ReencodeCalls ==
    { [op |-> "pending", call |-> "request reencode", fields |-> fs] :
        fs \in IsoWireFieldLists }

\* encode() of what decode() returned
Reencoded(d) == IF d.ok THEN SigmaRequest_encode(d.val) ELSE d

WireCalls == EncodeCalls \cup EncodeFieldCalls \cup TagDecodeCalls \cup RequestFieldCalls
                 \cup ResponseFieldCalls \cup IsoBytesCalls \cup ReencodeCalls

InitWire ==
    /\ InitMsg
    /\ frames = <<>>
    /\ fed = 0
    /\ src = <<>>
    /\ dst = <<>>
    /\ delivered = <<>>
    /\ last \in WireCalls

\* request.encode()
CallRequestEncode ==
    /\ Pending("SigmaRequest::encode")
    /\ last' = [op |-> "SigmaRequest::encode", arg |-> last.arg,
                res |-> SigmaRequest_encode(last.arg)]
    /\ PureIdle

\* request.encode() on a request of a given size
CallRequestEncodeOfSize ==
    /\ Pending("SigmaRequest::encode of size")
    /\ last' = [op |-> "SigmaRequest::encode of size",
                count |-> last.count, size |-> last.size,
                res |-> Written(SigmaRequest_encode(
                                    RequestOfSize(last.count, last.size)))]
    /\ PureIdle

\* response.encode()
CallResponseEncode ==
    /\ Pending("SigmaResponse::encode")
    /\ last' = [op |-> "SigmaResponse::encode", arg |-> last.arg,
                res |-> SigmaResponse_encode(last.arg)]
    /\ PureIdle

\* encode_field_to_buf(tag, data, &mut buf) on an empty buffer, data of
\* last.size bytes
CallEncodeField ==
    /\ Pending("encode_field_to_buf")
    /\ last' = [op |-> "encode_field_to_buf", tag |-> last.tag,
                size |-> last.size,
                res |-> Written(encode_field_to_buf(
                                    last.tag, Repeat(65, last.size), <<>>))]
    /\ PureIdle

\* Tag::decode(data)
CallTagDecode ==
    /\ Pending("Tag::decode")
    /\ last' = [op |-> "Tag::decode", bytes |-> last.bytes,
                res |-> Tag_decode(last.bytes)]
    /\ PureIdle

\* SigmaRequest::decode of a frame built from a list of fields
CallRequestFields ==
    /\ Pending("request fields")
    /\ last' = [op |-> "request fields", fields |-> last.fields,
                res |-> SigmaRequest_decode(RequestFrameOfFields(last.fields))]
    /\ PureIdle

\* IsoFieldData::from_bytes(data), then as_bytes() of the result
CallIsoFromBytes ==
    /\ Pending("IsoFieldData::from_bytes")
    /\ last' = [op |-> "IsoFieldData::from_bytes", bytes |-> last.bytes,
                res |-> IsoFieldData_from_bytes(last.bytes),
                back |-> IsoFieldData_as_bytes(IsoFieldData_from_bytes(last.bytes))]
    /\ PureIdle

\* SigmaRequest::decode of a frame built from a list of fields, then
\* encode() of the decoded request
CallRequestReencode ==
    /\ Pending("request reencode")
    /\ last' = [op |-> "request reencode", fields |-> last.fields,
                res |-> SigmaRequest_decode(RequestFrameOfFields(last.fields)),
                again |-> Reencoded(SigmaRequest_decode(
                                        RequestFrameOfFields(last.fields)))]
    /\ PureIdle

NextWire ==
    \/ CallRequestEncode
    \/ CallRequestEncodeOfSize
    \/ CallResponseEncode
    \/ CallEncodeField
    \/ CallTagDecode
    \/ CallRequestFields
    \/ CallResponseFields
    \/ CallIsoFromBytes
    \/ CallRequestReencode

SpecWire == InitWire /\ [][NextWire]_vars

(***************************************************************************)
(* util.rs: calls of the packed-BCD functions                              *)
(***************************************************************************)
\* every u8
BcdByteInputs == 0..255

\* every u16 up to 10000, and 10001, 32768 and 65535
BcdWordInputs == 0..10000 \cup {10001, 32768, 65535}

\* bytes with decimal and with non-decimal nibbles
BcdPairInputs == {0, 9, 10, 16, 25, 153, 154, 160, 255}

BcdCalls ==
    { [op |-> "pending", call |-> "encode_bcd_x2", v |-> v] : v \in BcdByteInputs }
    \cup { [op |-> "pending", call |-> "encode_bcd_x4", v |-> v] : v \in BcdWordInputs }
    \cup { [op |-> "pending", call |-> "decode_bcd_x2", v |-> v] : v \in BcdByteInputs }
    \cup { [op |-> "pending", call |-> "decode_bcd_x4", pair |-> <<l, r>>] :
              l \in BcdPairInputs, r \in BcdPairInputs }

InitBcd ==
    /\ InitMsg
    /\ frames = <<>>
    /\ fed = 0
    /\ src = <<>>
    /\ dst = <<>>
    /\ delivered = <<>>
    /\ last \in BcdCalls

\* encode_bcd_x2(v), then decode_bcd_x2 of the byte it returned
CallEncodeBcdX2 ==
    /\ Pending("encode_bcd_x2")
    /\ \E r \in {encode_bcd_x2(last.v)} :
          last' = [op |-> "encode_bcd_x2", v |-> last.v, res |-> r,
                   back |-> IF r.ok THEN decode_bcd_x2(r.val) ELSE r]
    /\ PureIdle

\* encode_bcd_x4(v), then decode_bcd_x4 of the bytes it returned
CallEncodeBcdX4 ==
    /\ Pending("encode_bcd_x4")
    /\ \E r \in {encode_bcd_x4(last.v)} :
          last' = [op |-> "encode_bcd_x4", v |-> last.v, res |-> r,
                   back |-> IF r.ok THEN decode_bcd_x4(r.val) ELSE r]
    /\ PureIdle

\* decode_bcd_x2(v)
CallDecodeBcdX2 ==
    /\ Pending("decode_bcd_x2")
    /\ last' = [op |-> "decode_bcd_x2", v |-> last.v, res |-> decode_bcd_x2(last.v)]
    /\ PureIdle

\* decode_bcd_x4(&[l, r])
CallDecodeBcdX4 ==
    /\ Pending("decode_bcd_x4")
    /\ last' = [op |-> "decode_bcd_x4", pair |-> last.pair,
                res |-> decode_bcd_x4(last.pair)]
    /\ PureIdle

NextBcd ==
    \/ CallEncodeBcdX2
    \/ CallEncodeBcdX4
    \/ CallDecodeBcdX2
    \/ CallDecodeBcdX4

SpecBcd == InitBcd /\ [][NextBcd]_vars

(***************************************************************************)
(* C13  The header keys of a JSON document are checked in order.           *)
(***************************************************************************)
FromJsonCalled == last.op = "from_json_value"

HeaderKeys == <<KeySAF, KeySRC, KeyMTI>>

HeaderKeyName(i) == IF i = 1 THEN "SAF" ELSE IF i = 2 THEN "SRC" ELSE "MTI"

\* the i-th header key is present, a string, and its validator accepts it
HeaderKeyGood(m, i) ==
    /\ HeaderKeys[i] \in DOMAIN m
    /\ m[HeaderKeys[i]].t = "string"
    /\ IF i = 1 THEN ValidSaf(m[KeySAF].s)
       ELSE IF i = 2 THEN ValidSource(m[KeySRC].s)
       ELSE ValidMti(m[KeyMTI].s)

JsonHeaderGood(data) ==
    data.t = "object" /\ \A i \in 1..3 : HeaderKeyGood(data.m, i)

\* C13: when a header key of the document is missing or invalid, the error
\* from_json_value returns is about the first such key in the order SAF, SRC,
\* MTI: MissingField(key) when it is absent, IncorrectFieldData for that key
\* when it is no string or a string its validator rejects; nothing about a
\* later header key, Serno or a tag key is reported.
C13_HeaderOrder ==
    (FromJsonCalled /\ last.arg.t = "object") =>
        \A i \in 1..3 :
            ( /\ ~HeaderKeyGood(last.arg.m, i)
              /\ \A j \in 1..(i - 1) : HeaderKeyGood(last.arg.m, j) ) =>
                /\ ~last.res.ok
                /\ last.res.err =
                      IF HeaderKeys[i] \in DOMAIN last.arg.m
                      THEN "IncorrectFieldData" ELSE "MissingField"
                /\ last.res.field = HeaderKeyName(i)

\* "SRC" is an empty string while "MTI" is missing, "Serno" is no number and
\* a tag key is unknown
C13_Witness ==
    /\ FromJsonCalled
    /\ last.arg.t = "object"
    /\ HeaderKeyGood(last.arg.m, 1)
    /\ KeySRC \in DOMAIN last.arg.m
    /\ last.arg.m[KeySRC] = JString(<<>>)
    /\ KeyMTI \notin DOMAIN last.arg.m
    /\ KeySerno \in DOMAIN last.arg.m
    /\ DOMAIN FieldsUnknownKind \subseteq DOMAIN last.arg.m
    /\ ~last.res.ok

(***************************************************************************)
(* C14  JSON keys are routed into the map of their variant.                *)
(***************************************************************************)
\* the textual form of a tag: T + 4 digits, i + 3 digits, s + 4 + 2 digits,
\* the letter in either case
ValidTagText(k) ==
    \/ Len(k) = 5 /\ k[1] \in {84, 116} /\ AllDigitBytes(SubSeq(k, 2, 5))
    \/ Len(k) = 4 /\ k[1] \in {73, 105} /\ AllDigitBytes(SubSeq(k, 2, 4))
    \/ Len(k) = 7 /\ k[1] \in {83, 115} /\ AllDigitBytes(SubSeq(k, 2, 7))

\* the tag a valid tag text names
TextTag(k) ==
    IF k[1] \in {84, 116} THEN Regular(TextValue(SubSeq(k, 2, 5)))
    ELSE IF k[1] \in {73, 105} THEN Iso(TextValue(SubSeq(k, 2, 4)))
    ELSE IsoSubfield(TextValue(SubSeq(k, 2, 5)), TextValue(SubSeq(k, 6, 7)))

FieldKeys(m) == DOMAIN m \ {KeySAF, KeySRC, KeyMTI, KeySerno}

\* "Serno" is absent, a u64, or a string of digits that is one
JsonSernoGood(m) ==
    \/ KeySerno \notin DOMAIN m
    \/ m[KeySerno].t = "u64"
    \/ /\ m[KeySerno].t = "string"
       /\ m[KeySerno].s # <<>>
       /\ AllDigitBytes(m[KeySerno].s)
       /\ Len(m[KeySerno].s) <= 19

\* a string itself, an integer in its shortest decimal form
TextOfValue(v) == IF v.t = "string" THEN v.s ELSE [i \in 1..Len(v.n) |-> 48 + v.n[i]]

\* every key beside the header is a valid tag text with a string or a
\* non-negative integer
JsonFieldsGood(m) ==
    \A k \in FieldKeys(m) : ValidTagText(k) /\ m[k].t \in {"string", "u64"}

\* the tags that have an entry in the maps of r, and the text of the entry
EntryTags(r) ==
    {Regular(i) : i \in DOMAIN r.tags}
        \cup {Iso(i) : i \in DOMAIN r.iso_fields}
        \cup {IsoSubfield(p[1], p[2]) : p \in DOMAIN r.iso_subfields}

EntryText(r, tag) ==
    IF tag.kind = "Regular" THEN r.tags[tag.i]
    ELSE IF tag.kind = "Iso" THEN r.iso_fields[tag.i].bytes
    ELSE r.iso_subfields[<<tag.i, tag.si>>].bytes

\* the payloads of the Iso and IsoSubfield entries are text
EntriesAreText(r) ==
    /\ \A i \in DOMAIN r.iso_fields : r.iso_fields[i].variant = "String"
    /\ \A p \in DOMAIN r.iso_subfields : r.iso_subfields[p].variant = "String"

JsonRoutable ==
    /\ FromJsonCalled
    /\ JsonHeaderGood(last.arg)
    /\ JsonSernoGood(last.arg.m)
    /\ JsonFieldsGood(last.arg.m)

\* C14 as stated: every key yields one entry holding its own value, and there
\* are as many entries as keys.
C14_RoutingAsStated ==
    JsonRoutable =>
        /\ last.res.ok
        /\ EntryTags(last.res.val) = {TextTag(k) : k \in FieldKeys(last.arg.m)}
        /\ \A k \in FieldKeys(last.arg.m) :
              EntryText(last.res.val, TextTag(k)) = TextOfValue(last.arg.m[k])
        /\ FieldCount(last.res.val) = Cardinality(FieldKeys(last.arg.m))

\* C14 amended: under a valid header with every other key a valid tag text
\* whose value is a string or a non-negative integer, the maps hold exactly
\* one entry per tag named, in the map of the tag's variant and at the parsed
\* index, with a text payload that is the value of a key naming that tag
\* (the string itself or the shortest decimal form of the integer); there
\* are as many entries as distinct tags named, which is the number of keys
\* only when no two keys name the same tag.
C14_Routing ==
    JsonRoutable =>
        /\ last.res.ok
        /\ EntryTags(last.res.val) = {TextTag(k) : k \in FieldKeys(last.arg.m)}
        /\ EntriesAreText(last.res.val)
        /\ \A tag \in EntryTags(last.res.val) :
              \E k \in FieldKeys(last.arg.m) :
                  /\ TextTag(k) = tag
                  /\ EntryText(last.res.val, tag) = TextOfValue(last.arg.m[k])
        /\ FieldCount(last.res.val)
              = Cardinality({TextTag(k) : k \in FieldKeys(last.arg.m)})
        /\ FieldCount(last.res.val) <= Cardinality(FieldKeys(last.arg.m))

\* a document with a key of each variant, strings and integers
C14_Witness ==
    /\ JsonRoutable
    /\ FieldKeys(last.arg.m) = DOMAIN FieldsAllVariants
    /\ last.res.ok
    /\ DOMAIN last.res.val.tags = {1, 19}
    /\ last.res.val.tags[19] = <<48>>
    /\ last.res.val.iso_fields[2] = IsoString(<<54, 52, 51>>)
    /\ last.res.val.iso_subfields[<<19, 2>>] = IsoString(<<89>>)

(***************************************************************************)
(* C15  An unparseable JSON key is reported by name.                       *)
(***************************************************************************)
\* k occurs in text
Contains(text, k) ==
    \E i \in 0..(Len(text) - Len(k)) : SubSeq(text, i + 1, i + Len(k)) = k

\* C15: under a valid SAF, SRC, MTI and Serno, a document with a key that is
\* no valid tag text makes from_json_value fail with IncorrectTag, and the
\* error carries the name of such a key.
C15_BadKeyNamed ==
    ( /\ FromJsonCalled
      /\ JsonHeaderGood(last.arg)
      /\ KeySerno \in DOMAIN last.arg.m
      /\ JsonSernoGood(last.arg.m)
      /\ \E k \in FieldKeys(last.arg.m) : ~ValidTagText(k) ) =>
        /\ ~last.res.ok
        /\ last.res.err = "IncorrectTag"
        /\ \E k \in FieldKeys(last.arg.m) :
              ~ValidTagText(k) /\ Contains(last.res.text, k)

(***************************************************************************)
(* C16  A generated auth_serno is not zero.                                *)
(***************************************************************************)
\* C16: under a valid SAF, SRC, MTI, without "Serno" (and with good tag
\* keys), from_json_value returns a request whose auth_serno is the value
\* drawn from the generator, and that value is greater than 0.
C16_GeneratedSernoNonzero ==
    ( /\ FromJsonCalled
      /\ JsonHeaderGood(last.arg)
      /\ KeySerno \notin DOMAIN last.arg.m
      /\ JsonFieldsGood(last.arg.m) ) =>
        /\ last.res.ok
        /\ last.res.val.auth_serno = last.gen
        /\ last.res.val.auth_serno # <<0>>

(***************************************************************************)
(* C17  The textual form of a tag parses back to the tag.                  *)
(***************************************************************************)
\* C17: for every valid tag (Regular(i), Iso(i) with i in 0..9999,
\* IsoSubfield(i, si) with si in 0..99) Tag::from_str applied to the Display
\* string of the tag succeeds and returns the tag.
C17_TagTextRoundTrip ==
    (last.op = "Tag::to_string") =>
        /\ last.res.ok
        /\ last.res.val = last.arg


\* ---------------------------------------------------------------------
\* C18
\* ---------------------------------------------------------------------

TruncatedOps == {"truncated request", "truncated response", "truncated field"}

\* the untruncated input decodes
WholeDecodes(op, frame) ==
    CASE op = "truncated request" -> SigmaRequest_decode(frame).ok
      [] op = "truncated response" -> SigmaResponse_decode(frame).ok
      [] op = "truncated field" ->
            \E r \in {decode_field_from_cursor(frame)} : r.ok /\ r.rest = <<>>

ProperPrefix(p, f) == Len(p) < Len(f) /\ p = Take(f, Len(p))

\* C18: for every valid request frame, response frame or TLV field and
\* every proper prefix p of it, the empty one included,
\* SigmaRequest::decode(p), SigmaResponse::decode(p) respectively
\* decode_field_from_cursor(p) returns Error::Bounds: never Ok, never
\* another error kind.
C18_TruncationIsBounds ==
    (/\ last.op \in TruncatedOps
     /\ WholeDecodes(last.op, last.frame)
     /\ ProperPrefix(last.arg, last.frame)) =>
        /\ ~last.res.ok
        /\ last.res.err = "Bounds"

\* a request frame cut inside the payload of its last field
C18_Witness ==
    /\ last.op = "truncated request"
    /\ WholeDecodes(last.op, last.frame)
    /\ Len(last.frame) > 27
    /\ Len(last.arg) = Len(last.frame) - 1
    /\ ~last.res.ok
    /\ last.res.err = "Bounds"


\* ---------------------------------------------------------------------
\* C19
\* ---------------------------------------------------------------------

InterpretedTags == {Regular(31), Regular(32), Regular(48)}

FieldsWithTag(fields, tag) ==
    LET Test(f) == f[1] = tag
    IN  SelectSeq(fields, Test)

\* the list without the fields that carry any other tag
InterpretedOnly(fields) ==
    LET Test(f) == f[1] \in InterpretedTags
    IN  SelectSeq(fields, Test)

\* the payload of the last field with the tag, when there is one
LastPayload(fields, tag) ==
    LET s == FieldsWithTag(fields, tag)
    IN  IF s = <<>> THEN None ELSE Some(s[Len(s)][2])

ReasonValue(payload) == ParseUnsigned(Utf8Lossy(payload), U32_MAX)

\* every reason payload is a u32 and every fee payload a FeeData
PayloadsParse(fields) ==
    \A n \in 1..Len(fields) :
        /\ fields[n][1] = Regular(31) => ReasonValue(fields[n][2]).ok
        /\ fields[n][1] = Regular(32) => FeeData_from_slice(fields[n][2]).ok

\* the response the field list stands for
ResponseOfFields(fields) ==
    LET reason == LastPayload(fields, Regular(31))
        fees == FieldsWithTag(fields, Regular(32))
        adata == LastPayload(fields, Regular(48))
    IN  [mti |-> <<48, 49, 49, 48>>,
         auth_serno |-> <<1, 2, 3>>,
         reason |-> IF reason.some THEN ReasonValue(reason.val).val ELSE <<0>>,
         fees |-> [n \in 1..Len(fees) |-> FeeData_from_slice(fees[n][2]).val],
         adata |-> IF adata.some THEN Some(Utf8Lossy(adata.val)) ELSE None]

ResponseFieldsDecoded == last.op = "response fields"

\* as stated: whatever the payloads of the well-formed fields are
C19_InterpretedAsStated ==
    ResponseFieldsDecoded =>
        /\ last.res.ok
        /\ last.res.val = ResponseOfFields(last.fields)
        /\ last.res = SigmaResponse_decode(FrameOfFields(InterpretedOnly(last.fields)))

\* C19: for a frame with a valid header followed by well-formed TLV
\* fields, the result of SigmaResponse::decode is the result for the same
\* frame without the fields whose tag is none of Regular(31), Regular(32),
\* Regular(48); and when every Regular(31) payload parses as u32 and every
\* Regular(32) payload as FeeData, decoding succeeds with reason the value
\* of the last Regular(31) field (0 without one), fees the FeeData of the
\* Regular(32) fields in wire order and adata the text of the last
\* Regular(48) field (absent without one).
C19_Interpreted ==
    ResponseFieldsDecoded =>
        /\ last.res = SigmaResponse_decode(FrameOfFields(InterpretedOnly(last.fields)))
        /\ PayloadsParse(last.fields) =>
              /\ last.res.ok
              /\ last.res.val = ResponseOfFields(last.fields)

\* two reasons around an Iso field with the same index: the last one wins
C19_Witness ==
    /\ ResponseFieldsDecoded
    /\ last.fields = << <<Regular(31), <<56, 49, 48, 48>>>>,
                        <<Iso(31), <<65, 66>>>>,
                        <<Regular(31), <<43, 53>>>> >>
    /\ PayloadsParse(last.fields)
    /\ last.res.ok
    /\ last.res.val.reason = <<5>>
    /\ last.res.val.fees = <<>>
    /\ ~last.res.val.adata.some


\* ---------------------------------------------------------------------
\* C20
\* ---------------------------------------------------------------------

FeeEncoded == last.op = "FeeData::encode"

\* the ASCII digit of n at the place of 10^p
DigitAt(n, p) == 48 + ((n \div (10 ^ p)) % 10)

\* 4 digits of reason, 3 digits of currency, the digits of amount
FeeText(fee) ==
    <<DigitAt(fee.reason, 3), DigitAt(fee.reason, 2),
      DigitAt(fee.reason, 1), DigitAt(fee.reason, 0)>>
    \o <<DigitAt(fee.currency, 2), DigitAt(fee.currency, 1),
         DigitAt(fee.currency, 0)>>
    \o [n \in 1..Len(fee.amount) |-> 48 + fee.amount[n]]

\* C20: FeeData::encode returns an error if and only if reason > 9999 or
\* currency > 999; otherwise its output is 4 zero-padded ASCII digits of
\* reason, 3 zero-padded ASCII digits of currency and the decimal digits
\* of amount without padding, and FeeData::from_slice of the output
\* returns the original FeeData.
C20_FeeEncode ==
    FeeEncoded =>
        /\ ~last.res.ok <=> (last.arg.reason > 9999 \/ last.arg.currency > 999)
        /\ last.res.ok =>
              /\ last.res.val = FeeText(last.arg)
              /\ last.decoded.ok
              /\ last.decoded.val = last.arg

\* a fee whose reason and currency both need padding
C20_Witness ==
    /\ FeeEncoded
    /\ last.arg = [reason |-> 84, currency |-> 7, amount |-> <<9, 0, 0, 0>>]
    /\ last.res.ok
    /\ last.res.val = <<48, 48, 56, 52, 48, 48, 55, 57, 48, 48, 48>>
    /\ last.decoded.ok
    /\ last.decoded.val = last.arg


\* ---------------------------------------------------------------------
\* C21
\* ---------------------------------------------------------------------

\* the step failed inside SigmaResponse::decode, after the frame was split off
BodyRejected(r) == ~r.ok /\ r.err = "ExtfgSigma"

\* the buffer after the step is the buffer before it without its first
\* N + 5 bytes, N the number in its length prefix
FrameRemoved(before, after) ==
    /\ Len(before) >= LENGTH_BYTES_COUNT
    /\ \E n \in {ParsePrefix(before)} :
          /\ n.ok
          /\ Len(before) >= n.val + LENGTH_BYTES_COUNT
          /\ after = Drop(before, n.val + LENGTH_BYTES_COUNT)

\* as stated: the buffer changes only on a step that returns a response
C21_ShrinksOnlyOnResponse ==
    StreamDecoded =>
        /\ src = last.after
        /\ IF Produced(last.res)
           THEN FrameRemoved(last.before, last.after)
           ELSE last.after = last.before

\* C21: a stream decode step changes the buffer only when it has split a
\* complete frame off it, that is when it returns a decoded response or
\* the error of SigmaResponse::decode on that frame; it then removes
\* exactly the first N + 5 bytes. A step that returns need-more or a
\* length-parsing error leaves the buffer byte for byte unchanged.
C21_ShrinksOnlyOnFrame ==
    StreamDecoded =>
        /\ src = last.after
        /\ IF Produced(last.res) \/ BodyRejected(last.res)
           THEN FrameRemoved(last.before, last.after)
           ELSE /\ last.after = last.before
                /\ \/ NeedMore(last.res)
                   \/ ~last.res.ok /\ last.res.err \in {"WrongLenUtf8", "WrongLenInt"}

\* a length-parsing error on a buffer that holds a whole frame and the
\* start of the next one
C21_Witness ==
    /\ StreamDecoded
    /\ ~last.res.ok
    /\ last.res.err = "WrongLenInt"
    /\ Len(last.before) > LENGTH_BYTES_COUNT
    /\ last.after = last.before
    /\ src = last.before
    /\ Len(delivered) = 1


\* ---------------------------------------------------------------------
\* C22
\* ---------------------------------------------------------------------

RequestEncodeCalled == last.op = "SigmaRequest::encode"

RequestOfSizeEncoded == last.op = "SigmaRequest::encode of size"

ResponseEncodeCalled == last.op = "SigmaResponse::encode"

\* C22: SigmaRequest::encode and SigmaResponse::encode return Ok for every
\* value whose tag indices are <= 9999, sub-indices <= 99, payload and
\* adata lengths <= 9999 and fees within reason <= 9999 and currency <=
\* 999, whatever the number of fields and the size of the body; they
\* never abort or return an error for such a value.
C22_EncodersInfallible ==
    /\ (RequestEncodeCalled /\ RequestInBounds(last.arg)) => last.res.ok
    /\ (RequestOfSizeEncoded /\ last.size <= MaxPayload) => last.res.ok
    /\ (ResponseEncodeCalled /\ ResponseInBounds(last.arg)) => last.res.ok

\* ---------------------------------------------------------------------
\* C23
\* ---------------------------------------------------------------------

FieldEncoded == last.op = "encode_field_to_buf"

\* the number the two BCD length bytes of an emitted field stand for
EmittedLength(field) ==
    (field[5] \div 16) * 1000 + (field[5] % 16) * 100
        + (field[6] \div 16) * 10 + (field[6] % 16)

\* C23: for every tag and every payload longer than 9999 bytes, lengths of
\* 65536 and above included, encode_field_to_buf returns an error, and so
\* does SigmaRequest::encode for a request holding such a payload; a field
\* whose BCD length differs from the number of payload bytes written is
\* never emitted.
C23_OversizedRejected ==
    /\ FieldEncoded =>
          /\ last.size > MaxPayload => ~last.res.ok
          /\ last.res.ok =>
                /\ EmittedLength(last.res.head) = last.size
                /\ last.res.len = 6 + last.size
    /\ (RequestOfSizeEncoded /\ last.size > MaxPayload) => ~last.res.ok


\* ---------------------------------------------------------------------
\* C24
\* ---------------------------------------------------------------------

TagDecoded == last.op = "Tag::decode"

DecimalNibbles(b) == (b \div 16) <= 9 /\ (b % 16) <= 9

\* the two decimal digits a byte stands for
NibbleValue(b) == (b \div 16) * 10 + (b % 16)

\* a kind byte of 'T', 'I' or 'S' and decimal digits in every nibble
WellFormedTag(b) ==
    /\ Len(b) >= 4
    /\ b[1] \in {84, 73, 83}
    /\ DecimalNibbles(b[2]) /\ DecimalNibbles(b[3]) /\ DecimalNibbles(b[4])

\* the tag four well-formed bytes stand for
TagOfBytes(b) ==
    LET i == NibbleValue(b[2]) * 100 + NibbleValue(b[3])
    IN  IF b[1] = 84 THEN Regular(i)
        ELSE IF b[1] = 73 THEN Iso(i)
        ELSE IsoSubfield(i, NibbleValue(b[4]))

\* C24: Tag::decode returns Error::IncorrectTag whenever the kind byte is
\* none of 'T', 'I', 'S', or a nibble of the index bytes or of the sub byte
\* is not a decimal digit, or fewer than 4 bytes are given; for a
\* well-formed 4-byte tag it returns the tag of that kind and index.
C24_TagDecodeErrors ==
    TagDecoded =>
        IF WellFormedTag(last.bytes)
        THEN last.res.ok /\ last.res.val = TagOfBytes(last.bytes)
        ELSE ~last.res.ok /\ last.res.err = "IncorrectTag"


\* ---------------------------------------------------------------------
\* C25
\* ---------------------------------------------------------------------

RequestFieldsDecoded == last.op = "request fields"

TagKinds == {"Regular", "Iso", "IsoSubfield"}

\* the fields of one variant group, in wire order
WireGroup(fields, kind) ==
    LET Test(f) == f[1].kind = kind
    IN  SelectSeq(fields, Test)

\* the fields of one variant group of a request, in the order encode()
\* emits them
DecodedGroup(r, kind) ==
    IF kind = "Regular" THEN TagEntries(r)
    ELSE IF kind = "Iso" THEN IsoEntries(r)
    ELSE IsoSubfieldEntries(r)

\* the payload as the request keeps it: text for Regular, bytes otherwise
KeptPayload(kind, payload) ==
    IF kind = "Regular" THEN Utf8Lossy(payload) ELSE payload

\* within each group the tags on the wire are strictly ascending
AscendingOnWire(fields) ==
    \A i, j \in 1..Len(fields) :
        (i < j /\ fields[i][1].kind = fields[j][1].kind) =>
            TagBefore(fields[i][1], fields[j][1])

RegularPayloadsAreText(fields) ==
    \A n \in 1..Len(fields) :
        fields[n][1].kind = "Regular" => IsUtf8(fields[n][2])

\* the fees are the Regular(32) fields in wire order
FeesInWireOrder ==
    (ResponseFieldsDecoded /\ last.res.ok) =>
        \E fees \in {FieldsWithTag(last.fields, Regular(32))} :
            /\ Len(last.res.val.fees) = Len(fees)
            /\ \A n \in 1..Len(fees) :
                  last.res.val.fees[n] = FeeData_from_slice(fees[n][2]).val

\* as stated: each group of the decoded request is the group on the wire
C25_WireOrderAsStated ==
    /\ RequestFieldsDecoded =>
          /\ last.res.ok
          /\ \A kind \in TagKinds :
                DecodedGroup(last.res.val, kind) = WireGroup(last.fields, kind)
    /\ FeesInWireOrder

\* C25: a well-formed request frame decodes; each variant group of the
\* decoded SigmaRequest holds exactly the tags of that group on the wire,
\* in ascending key order, each with the payload of the last field on the
\* wire that carries the tag (a Regular payload as lossy UTF-8 text). When
\* the tags of each group are strictly ascending on the wire and the
\* Regular payloads are valid UTF-8, the groups of the decoded request are
\* the same sequences of (tag, payload) as on the wire. For a response
\* frame the fees list holds the Regular(32) fields in on-wire order.
C25_WireOrder ==
    /\ RequestFieldsDecoded =>
          /\ last.res.ok
          /\ \A kind \in TagKinds :
                \E d \in {DecodedGroup(last.res.val, kind)},
                   w \in {WireGroup(last.fields, kind)} :
                    /\ {d[n][1] : n \in 1..Len(d)} = {w[n][1] : n \in 1..Len(w)}
                    /\ \A n \in 1..Len(d) :
                          /\ d[n][2] = KeptPayload(kind,
                                           LastPayload(last.fields, d[n][1]).val)
                          /\ n < Len(d) => TagBefore(d[n][1], d[n + 1][1])
                    /\ (AscendingOnWire(last.fields)
                          /\ RegularPayloadsAreText(last.fields)) => d = w
    /\ FeesInWireOrder

\* Regular(2), Regular(1), Regular(1) on the wire: the request holds tag 1
\* with the later payload, then tag 2
C25_Witness ==
    /\ RequestFieldsDecoded
    /\ last.fields = << <<Regular(2), <<98>>>>, <<Regular(1), <<97>>>>,
                        <<Regular(1), <<99>>>> >>
    /\ last.res.ok
    /\ TagEntries(last.res.val) = << <<Regular(1), <<99>>>>, <<Regular(2), <<98>>>> >>


\* ---------------------------------------------------------------------
\* C26
\* ---------------------------------------------------------------------

IsoBytesPromoted == last.op = "IsoFieldData::from_bytes"

RequestReencoded == last.op = "request reencode"

\* the fields of a request frame, in wire order
FrameFields(frame) == WireFields(Drop(frame, 21))

\* C26: IsoFieldData::from_bytes(b) is the String variant exactly when b is
\* valid UTF-8 and the Raw variant otherwise, and as_bytes() of the result
\* is b; SigmaRequest::decode stores every Iso and IsoSubfield payload
\* through this rule, so the frame encoded from a decoded request carries,
\* for every Iso and IsoSubfield tag, the payload bytes the wire held for it.
C26_PromotionKeepsBytes ==
    /\ IsoBytesPromoted =>
          /\ last.res.variant = "String" <=> last.bytes \in Utf8Inputs
          /\ last.res.variant = "Raw" <=> last.bytes \in NotUtf8Inputs
          /\ last.back = last.bytes
    /\ RequestReencoded =>
          /\ last.res.ok
          /\ last.again.ok
          /\ \A k \in DOMAIN last.res.val.iso_fields :
                last.res.val.iso_fields[k] =
                    IsoFieldData_from_bytes(LastPayload(last.fields, Iso(k)).val)
          /\ \A k \in DOMAIN last.res.val.iso_subfields :
                last.res.val.iso_subfields[k] =
                    IsoFieldData_from_bytes(
                        LastPayload(last.fields, IsoSubfield(k[1], k[2])).val)
          /\ \E out \in {FrameFields(last.again.val)} :
                /\ \A n \in 1..Len(last.fields) :
                      last.fields[n][1].kind # "Regular" =>
                          \E m \in 1..Len(out) : out[m][1] = last.fields[n][1]
                /\ \A m \in 1..Len(out) :
                      out[m][1].kind # "Regular" =>
                          out[m][2] = LastPayload(last.fields, out[m][1]).val

\* bytes that are not UTF-8 went through decode and encode unchanged, next
\* to a payload that was promoted to text
C26_Witness ==
    /\ RequestReencoded
    /\ last.fields = << <<Iso(2), <<255>>>>, <<Iso(3), <<195, 169>>>>,
                        <<IsoSubfield(19, 2), <<255, 0>>>> >>
    /\ last.res.ok
    /\ last.res.val.iso_fields[2] = IsoRaw(<<255>>)
    /\ last.res.val.iso_fields[3] = IsoString(<<195, 169>>)
    /\ last.again.ok
    /\ last.again.val = RequestFrameOfFields(last.fields)


\* ---------------------------------------------------------------------
\* C27
\* ---------------------------------------------------------------------

\* exactly four ASCII decimal digits
FourDigits(s) == Len(s) = 4 /\ \A i \in 1..Len(s) : s[i] \in 48..57

\* the frame starts with the prefix, the 4 bytes of the mti and 10 bytes of
\* auth_serno, and the first field, Regular(31), follows them
HeaderOfFourteen(self, frame) ==
    /\ Len(frame) >= 5 + 14 + 6
    /\ SubSeq(frame, 6, 9) = self.mti
    /\ SubSeq(frame, 10, 19) = AuthSernoBytes(self.auth_serno)
    /\ SubSeq(frame, 20, 23) = <<84, 0, 49, 0>>

\* C27: every SigmaResponse value obtained through SigmaResponse::new,
\* SigmaResponse::decode, set_mti or the derived deserialization has an mti
\* of exactly 4 ASCII decimal digits, so SigmaResponse::encode emits a
\* 14-byte header (4-byte mti and 10-byte auth_serno) before the first
\* field.
C27_ResponseMtiInvariant ==
    resp.some =>
        /\ FourDigits(resp.val.mti)
        /\ \E e \in {SigmaResponse_encode(resp.val)} :
              e.ok => HeaderOfFourteen(resp.val, e.val)


\* ---------------------------------------------------------------------
\* C28
\* ---------------------------------------------------------------------

\* the nibbles of a byte sequence, high nibble first
RECURSIVE Nibbles(_)
Nibbles(bytes) ==
    IF bytes = <<>> THEN <<>>
    ELSE <<bytes[1] \div 16, bytes[1] % 16>> \o Nibbles(Tail(bytes))

\* the n decimal digits of v, most significant first
RECURSIVE DecimalDigits(_, _)
DecimalDigits(v, n) ==
    IF n = 0 THEN <<>> ELSE DecimalDigits(v \div 10, n - 1) \o <<v % 10>>

BcdCalled(call) == last.op = call

\* C28: encode_bcd_x2(v) returns an error iff v > 99 and encode_bcd_x4(v)
\* iff v > 9999; for every v in range the result has one decimal digit per
\* nibble, most significant first, and decoding the result gives v back;
\* decode_bcd_x2(b) returns an error iff a nibble of b exceeds 9.
C28_BcdEncodersAndDecoders ==
    /\ BcdCalled("encode_bcd_x2") =>
          /\ ~last.res.ok <=> last.v > 99
          /\ last.res.ok =>
                /\ Nibbles(<<last.res.val>>) = DecimalDigits(last.v, 2)
                /\ last.back = Ok(last.v)
    /\ BcdCalled("encode_bcd_x4") =>
          /\ ~last.res.ok <=> last.v > 9999
          /\ last.res.ok =>
                /\ Len(last.res.val) = 2
                /\ Nibbles(last.res.val) = DecimalDigits(last.v, 4)
                /\ last.back = Ok(last.v)
    /\ BcdCalled("decode_bcd_x2") =>
          (~last.res.ok <=> \E n \in 1..2 : Nibbles(<<last.v>>)[n] > 9)

\* encode_bcd_x4(1234) returned 0x12 0x34, which decodes to 1234
C28_Witness ==
    /\ BcdCalled("encode_bcd_x4")
    /\ last.v = 1234
    /\ last.res = Ok(<<18, 52>>)
    /\ last.back = Ok(1234)
=============================================================================
